---------------------------- MODULE Spec2Model ----------------------------
(***************************************************************************)
(* Typesafe IPC layer of the desktop client (src/shared/lib/ipc).          *)
(*                                                                         *)
(* Host   = Electron main process  (registerMainHandlers, getRendererCaller)*)
(* Client = renderer process       (createMainCaller, createRendererHandler)*)
(*                                                                         *)
(* The specifications share the variables:                                 *)
(*   SpecDispatch  the Host Dispatch Table answering Client requests       *)
(*   Spec          Host-to-Client invoke / handle with correlation tokens  *)
(*   LiveSpec      Spec with the fairness of the two dispatch loops        *)
(*   SpecSend      Host-to-Client send / listen next to invoke / handle    *)
(*   SpecServer    the NeovateServerManager singleton (getOrCreate, stop)  *)
(*   SpecDetach    Spec with the calls of the cleanup handles observed     *)
(*   SpecTwoClients  the round trip with a second Client sending envelopes *)
(*   SpecDisconnect  connect, disconnect and the transport callbacks       *)
(*   SpecStore     the renderer store's repos, workspaces and sessions     *)
(*   SpecConn      the renderer store's connection and sendMessage         *)
(*   SpecInput     the chat input store                                    *)
(*   SpecChannel   the channel strings of the three addressing forms       *)
(***************************************************************************)
EXTENDS Integers, Sequences, FiniteSets, TLC

(***************************************************************************)
(* Bounds of the model.                                                    *)
(***************************************************************************)
MaxCalls == 2
MaxRegs == 2
MaxRequests == 2
MaxSends == 2
MaxGets == 3
MaxConnects == 3
MaxSendMessages == 2
MaxHistory == 1
MaxToggles == 4
MaxAddressed == 2
MaxDisconnects == 2

(***************************************************************************)
(* Payload values: plain JavaScript values, tagged with their type.        *)
(***************************************************************************)
Undefined == [type |-> "undefined", num |-> 0, str |-> ""]
Num(n) == [type |-> "number", num |-> n, str |-> ""]
Str(s) == [type |-> "string", num |-> 0, str |-> s]
NaN == [type |-> "number", num |-> 0, str |-> "NaN"]

\* JavaScript truthiness, as tested by `if (error)`.
Truthy(v) ==
  CASE v.type = "undefined" -> FALSE
    [] v.type = "number" -> v.num # 0 /\ v.str # "NaN"
    [] v.type = "string" -> v.str # ""
    [] OTHER -> TRUE

\* The i-th positional argument of a call; undefined when it is missing.
Arg(args, i) == IF i \in 1..Len(args) THEN args[i] ELSE Undefined

\* Destructuring `{ error, result }`: a missing property reads as undefined.
Get(obj, k) == IF k \in DOMAIN obj THEN obj[k] ELSE Undefined

(***************************************************************************)
(* Channel addressing.                                                     *)
(***************************************************************************)
Namespaces == {"file", "math"}
Methods == {"add", "save"}
Keys == Namespaces \X Methods

\* Object.entries order of the nested handler table.
KeyOrder == << <<"file", "add">>, <<"file", "save">>,
               <<"math", "add">>, <<"math", "save">> >>

\* A channel name written without the separator.
channelNameUnseparated(namespace, method) == namespace \o method

channelName(namespace, method) == namespace \o "." \o method

\* A fire-and-forget form that shares the prefix of the request form.
sendChannelInvokePrefix(namespace, method) ==
  "invoke:" \o channelName(namespace, method)

sendChannel(namespace, method) == "send:" \o channelName(namespace, method)

invokeChannel(namespace, method) == "invoke:" \o channelName(namespace, method)


(***************************************************************************)
(* State.                                                                  *)
(***************************************************************************)
VARIABLES
  \* ---- Host Dispatch Table (Client -> Host requests) ----
  mainHandlers, \* the table given to registerMainHandlers ({} before startup)
  registered,   \* TRUE once registerMainHandlers has run
  handlers,     \* ipcMain.handle bindings: channel string -> bound procedure
  requests,     \* native requests received by the Host, in order
  invocations,  \* procedure invocations made by the Host, in order
  mainCalls,    \* Client-to-Host calls made through createMainCaller, in order
  \* ---- Host-to-Client Caller (Host side) ----
  hostPc,       \* position of the Host inside invoke: idle | once | send
  calls,        \* invoke calls issued so far, in order
  waiters,      \* ipcMain.once listeners currently registered
  sentLog,      \* every message written with contents.send, in order
  toClient,     \* Host -> Client messages in flight
  \* ---- Client Dispatch Table (Client side) ----
  regs,         \* registrations made with handle, in order
  acts,         \* activations of handle callbacks, in order
  toHost,       \* Client -> Host reply messages in flight
  deliveries,   \* calls of listen callbacks, in order
  uncaught,     \* exceptions a listener threw into ipcRenderer's emit, in order
  \* ---- NeovateServerManager (Host side) ----
  instance,         \* this.instance: 0 (null) or the server created by creation k
  creationPromise,  \* this.creationPromise: 0 (null) or the promise of creation k
  creations,        \* the createNeovateServer() calls made so far, in order
  getCalls,         \* the getOrCreate calls made so far, in order
  stopped,          \* TRUE from a stop() to the next getOrCreate call
  \* ---- Renderer store (useStore) ----
  repos,                \* Record<path, RepoData>
  workspaces,           \* Record<id, WorkspaceData>
  sessions,             \* Record<id, SessionData>
  selectedRepoPath,     \* a path or Null
  selectedWorkspaceId,  \* an id or Null
  selectedSessionId,    \* an id or Null
  lastOp,               \* the entity or selection action that ran last
  state,          \* disconnected | connecting | connected | error
  transport,      \* 0 (null) or the transport created by connect call k
  messageBus,     \* 0 (null) or the message bus created by connect call k
  transports,     \* the WebSocketTransport objects created so far, in order
  connects,       \* the connect calls made so far, in order
  status,         \* idle | processing
  sends,          \* the sendMessage calls made so far, in order
  disconnects,    \* the disconnect calls made so far, in order
  \* ---- Chat input store (useInputStore) ----
  inputState,     \* the fields of the input store
  toggleRun,      \* the toggleThinking calls made in a row, and where they began
  \* ---- Channel strings ----
  addressed,      \* the channel strings built so far, in order
  \* ---- Observation ----
  detached        \* activations that were suspended when their handle was called

dispatchVars == <<mainHandlers, registered, handlers, requests, invocations,
                  mainCalls>>
hostVars == <<hostPc, calls, waiters, sentLog, toClient>>
clientVars == <<regs, acts, toHost, deliveries, uncaught>>
serverVars == <<instance, creationPromise, creations, getCalls, stopped>>
entityVars == <<repos, workspaces, sessions, selectedRepoPath,
                selectedWorkspaceId, selectedSessionId>>
storeVars == <<repos, workspaces, sessions, selectedRepoPath,
               selectedWorkspaceId, selectedSessionId, lastOp>>
connVars == <<state, transport, messageBus, transports, connects, status,
              sends, disconnects>>
inputVars == <<inputState, toggleRun>>
ipcVars == <<dispatchVars, hostVars, clientVars, serverVars>>
appVars == <<storeVars, connVars, inputVars, addressed, detached>>
vars == <<mainHandlers, registered, handlers, requests, invocations, mainCalls,
          hostPc, calls, waiters, sentLog, toClient,
          regs, acts, toHost, deliveries, uncaught,
          instance, creationPromise, creations, getCalls, stopped,
          repos, workspaces, sessions, selectedRepoPath, selectedWorkspaceId,
          selectedSessionId, lastOp,
          state, transport, messageBus, transports, connects, status, sends,
          disconnects,
          inputState, toggleRun, addressed, detached>>

(***************************************************************************)
(* Host Dispatch Table: registerMainHandlers.                              *)
(***************************************************************************)
\* An object payload that carries fields of its own named context and
\* sender: { context: { sender: n }, sender: n }.
Forged(n) == [type |-> "object", num |-> n, str |-> "sender"]

RequestInputs == {Num(0), Str("boom"), Forged(2)}
Senders == {1, 2}

\* The entries of a table in iteration order.
Entries(table) == SelectSeq(KeyOrder, LAMBDA e : e \in table)

\* A binding that names the channel after the method alone.
HandlerChannelMethodOnly(e) == e[2]

\* The channel an entry of the table is bound to.
HandlerChannel(e) == channelName(e[1], e[2])

\* ipcMain.handle(channel, listener) for every entry, in order.  Electron
\* throws on a channel that already has a handler, which ends the walk.
RECURSIVE RegisterWalk(_, _)
RegisterWalk(h, entries) ==
  IF entries = <<>> THEN h
  ELSE LET e == Head(entries)
           ch == HandlerChannel(e)
       IN IF ch \in DOMAIN h THEN h
          ELSE RegisterWalk(h @@ (ch :> e), Tail(entries))

registerMainHandlers(table) ==
  /\ ~registered
  /\ registered' = TRUE
  /\ mainHandlers' = table
  /\ handlers' = RegisterWalk(handlers, Entries(table))
  /\ UNCHANGED <<requests, invocations, mainCalls>>
  /\ UNCHANGED <<hostVars, clientVars, serverVars, appVars>>

\* A listener that lets a payload with a sender field name the context.
DispatchPayloadContext(req, n) ==
  IF req.channel \in DOMAIN handlers
  THEN << [proc |-> handlers[req.channel],
           input |-> req.payload,
           context |-> IF req.payload.type = "object"
                       THEN [sender |-> req.payload.num]
                       ELSE [sender |-> req.sender],
           request |-> n] >>
  ELSE << >>

\* What the bound listener does with a request: it calls the entry's
\* procedure with { context: { sender }, input: payload }.
Dispatch(req, n) ==
  IF req.channel \in DOMAIN handlers
  THEN << [proc |-> handlers[req.channel],
           input |-> req.payload,
           context |-> [sender |-> req.sender],
           request |-> n] >>
  ELSE << >>

\* A native request (ipcRenderer.invoke) arriving at the Host.
HostRequest(ch, payload, sender) ==
  /\ Len(requests) < MaxRequests
  /\ LET req == [channel |-> ch, payload |-> payload, sender |-> sender,
                 afterRegister |-> registered]
     IN /\ requests' = Append(requests, req)
        /\ invocations' = invocations \o Dispatch(req, Len(requests) + 1)
  /\ UNCHANGED <<mainHandlers, registered, handlers, mainCalls>>
  /\ UNCHANGED <<hostVars, clientVars, serverVars, appVars>>

RequestChannels == {channelName(k[1], k[2]) : k \in Keys} \cup Methods

(***************************************************************************)
(* Client-to-Host Caller: createMainCaller({ ipcInvoke }).<ns>.<method>    *)
(***************************************************************************)
\* x * 2 on a JavaScript value.
Times2(v) == IF v.type = "number" /\ v.str # "NaN" THEN Num(2 * v.num) ELSE NaN

\* The procedures of the table, handler({ context, input }): math.add
\* computes from its input, math.save returns its input, file.add returns
\* the id of the sender in its context, file.save fails with its input.
Procedure(e, context, input) ==
  CASE e = <<"math", "add">> -> [kind |-> "return", value |-> Times2(input)]
    [] e = <<"math", "save">> -> [kind |-> "return", value |-> input]
    [] e = <<"file", "add">> -> [kind |-> "return", value |-> Num(context.sender)]
    [] OTHER -> [kind |-> "throw", value |-> input]

\* A caller that addresses the request/response form used by the Host.
MainCallerRequestInvokeForm(namespace, method, input) ==
  [channel |-> invokeChannel(namespace, method), payload |-> input]

\* The native request the callable issues: ipcInvoke(channelName, input).
MainCallerRequest(namespace, method, input) ==
  [channel |-> channelName(namespace, method), payload |-> input]

\* namespace.method(input) on the Client-to-Host Caller: the request is
\* issued and reaches the listener bound on its channel, if there is one.
MainCall(namespace, method, input, sender) ==
  /\ Len(requests) < MaxRequests
  /\ LET r == MainCallerRequest(namespace, method, input)
         req == [channel |-> r.channel, payload |-> r.payload,
                 sender |-> sender, afterRegister |-> registered]
     IN /\ requests' = Append(requests, req)
        /\ invocations' = invocations \o Dispatch(req, Len(requests) + 1)
        /\ mainCalls' = Append(mainCalls,
             [namespace |-> namespace, method |-> method, input |-> input,
              request |-> Len(requests) + 1,
              future |-> "pending", value |-> Undefined])
  /\ UNCHANGED <<mainHandlers, registered, handlers>>
  /\ UNCHANGED <<hostVars, clientVars, serverVars, appVars>>

\* The failure of the substrate for a channel without a listener.
NoHandler == Str("No handler registered")

\* The native response to request n: what the procedure called for it
\* returned or failed with, or the failure of the substrate.
Response(n) ==
  LET I == {i \in DOMAIN invocations : invocations[i].request = n}
  IN IF I = {} THEN [kind |-> "throw", value |-> NoHandler]
     ELSE LET i == CHOOSE j \in I : TRUE
          IN Procedure(invocations[i].proc, invocations[i].context,
                       invocations[i].input)

\* A response that hands a failure to the caller as a value.
SettleWithResolved(outcome) == [future |-> "resolved", value |-> outcome.value]

\* The future of the call settles as the native response says.
SettleWith(outcome) ==
  [future |-> IF outcome.kind = "return" THEN "resolved" ELSE "rejected",
   value |-> outcome.value]

\* The response of call c arrives at the Client.
MainSettle(c) ==
  /\ c \in DOMAIN mainCalls
  /\ mainCalls[c].future = "pending"
  /\ LET settled == SettleWith(Response(mainCalls[c].request))
     IN mainCalls' = [mainCalls EXCEPT ![c].future = settled.future,
                                       ![c].value = settled.value]
  /\ UNCHANGED <<mainHandlers, registered, handlers, requests, invocations>>
  /\ UNCHANGED <<hostVars, clientVars, serverVars, appVars>>

(***************************************************************************)
(* Host-to-Client Caller: getRendererCaller(contents).<ns>.<method>.invoke *)
(***************************************************************************)
\* The (namespace, method) pairs the Host calls and the Client handles.
RendererKeys == {<<"math", "add">>, <<"file", "save">>}

\* Argument lists of the modelled invoke calls.
ArgLists == { <<Num(0)>>, <<Num(21), Str("boom")>> }

\* Values crypto.randomUUID() can return, in the order TokenNames lists them.
TokenNames == <<"uuid-1", "uuid-2", "uuid-3", "uuid-4", "uuid-5">>
Tokens == {TokenNames[i] : i \in 1..MaxCalls}

\* crypto.randomUUID(): a version 4 UUID, never one returned before.
randomUUID == {t \in Tokens : \A c \in DOMAIN calls : calls[c].id # t}

\* An id minted once per (namespace, method) and used again by later calls.
MintIdPerMethod(namespace, method) ==
  IF \E c \in DOMAIN calls :
       calls[c].namespace = namespace /\ calls[c].method = method
  THEN {calls[c].id : c \in {d \in DOMAIN calls :
          calls[d].namespace = namespace /\ calls[d].method = method}}
  ELSE randomUUID

\* The id an invoke call on (namespace, method) gets: its own fresh UUID.
MintId(namespace, method) == randomUUID

\* A message that carries the arguments in reverse order.
InvokeMessageArgsReversed(c) ==
  [channel |-> invokeChannel(calls[c].namespace, calls[c].method),
   payload |-> <<calls[c].id>> \o
               [i \in 1..Len(calls[c].args) |->
                  calls[c].args[Len(calls[c].args) + 1 - i]],
   call |-> c]

\* The message contents.send writes for a call: (id, ...args).
InvokeMessage(c) ==
  [channel |-> invokeChannel(calls[c].namespace, calls[c].method),
   payload |-> <<calls[c].id>> \o calls[c].args,
   call |-> c]

\* Promise settlement: resolve and reject act on a pending promise only.
Resolve(call, v, m) ==
  IF call.promise = "pending"
  THEN [call EXCEPT !.promise = "resolved", !.value = v, !.settledBy = m.act]
  ELSE call

Reject(call, e, m) ==
  IF call.promise = "pending"
  THEN [call EXCEPT !.promise = "rejected", !.value = e, !.settledBy = m.act]
  ELSE call

\* The listener given to ipcMain.once: (_, { error, result }) => ...
OnReply(call, m) ==
  LET error == Get(m.payload, "error")
      result == Get(m.payload, "result")
  IN IF Truthy(error) THEN Reject(call, error, m) ELSE Resolve(call, result, m)

\* Matching by arrival order: a reply fires the oldest waiter.
FiredOldest(m) == {w \in waiters : \A v \in waiters : w.call <= v.call}

\* A reply that fires every registered waiter.
FiredAll(m) == waiters

\* The once-listeners an arriving message fires: those on its channel.
Fired(m) == {w \in waiters : w.channel = m.channel}

\* A listener registered with ipcMain.on stays registered after it ran.
RemainingOn(m) == waiters

\* ipcMain.once: the listeners that ran are removed.
Remaining(m) == waiters \ Fired(m)

\* An invoke that writes the message before the waiter is registered.
InvokeMintSendFirst(namespace, method, args) ==
  /\ hostPc = "idle"
  /\ Len(calls) < MaxCalls
  /\ \E id \in MintId(namespace, method) :
       LET call == [namespace |-> namespace, method |-> method,
                    args |-> args, id |-> id,
                    promise |-> "pending", value |-> Undefined,
                    settledBy |-> 0]
           msg == [channel |-> invokeChannel(namespace, method),
                   payload |-> <<id>> \o args, call |-> Len(calls) + 1]
       IN /\ calls' = Append(calls, call)
          /\ toClient' = toClient \cup {msg}
          /\ sentLog' = Append(sentLog, msg)
  /\ hostPc' = "once"
  /\ UNCHANGED waiters
  /\ UNCHANGED <<dispatchVars, clientVars, serverVars, appVars>>

\* invoke, first statement: const id = crypto.randomUUID()
InvokeMint(namespace, method, args) ==
  /\ hostPc = "idle"
  /\ Len(calls) < MaxCalls
  /\ \E id \in MintId(namespace, method) :
       calls' = Append(calls, [namespace |-> namespace, method |-> method,
                               args |-> args, id |-> id,
                               promise |-> "pending", value |-> Undefined,
                               settledBy |-> 0])
  /\ hostPc' = "once"
  /\ UNCHANGED <<waiters, sentLog, toClient>>
  /\ UNCHANGED <<dispatchVars, clientVars, serverVars, appVars>>

\* An invoke that registers its waiter on the method's channel, not the token.
InvokeOnceOnMethod ==
  /\ hostPc = "once"
  /\ waiters' = waiters \cup
       {[channel |-> invokeChannel(calls[Len(calls)].namespace,
                                   calls[Len(calls)].method),
         call |-> Len(calls)]}
  /\ hostPc' = "send"
  /\ UNCHANGED <<calls, sentLog, toClient>>
  /\ UNCHANGED <<dispatchVars, clientVars, serverVars, appVars>>

\* An invoke that goes on to write its message without registering a waiter.
InvokeOnceSkipped ==
  /\ hostPc = "once"
  /\ waiters' = waiters
  /\ hostPc' = "send"
  /\ UNCHANGED <<calls, sentLog, toClient>>
  /\ UNCHANGED <<dispatchVars, clientVars, serverVars, appVars>>

\* invoke, inside the promise executor: ipcMain.once(id, listener)
InvokeOnce ==
  /\ hostPc = "once"
  /\ waiters' = waiters \cup {[channel |-> calls[Len(calls)].id,
                               call |-> Len(calls)]}
  /\ hostPc' = "send"
  /\ UNCHANGED <<calls, sentLog, toClient>>
  /\ UNCHANGED <<dispatchVars, clientVars, serverVars, appVars>>

\* invoke, end of the executor: contents.send(`invoke:${channelName}`, id, ...args)
InvokeSend ==
  /\ hostPc = "send"
  /\ toClient' = toClient \cup {InvokeMessage(Len(calls))}
  /\ sentLog' = Append(sentLog, InvokeMessage(Len(calls)))
  /\ hostPc' = "idle"
  /\ UNCHANGED <<calls, waiters>>
  /\ UNCHANGED <<dispatchVars, clientVars, serverVars, appVars>>

\* The message send writes: the arguments alone, no token.  seq tells two
\* equal messages apart.
SendMessage(namespace, method, args) ==
  [channel |-> sendChannel(namespace, method), payload |-> args,
   call |-> 0, seq |-> Len(sentLog) + 1]

\* A send that registers a waiter for an answer.
SendAwaiting(namespace, method, args) ==
  /\ hostPc = "idle"
  /\ Len(sentLog) < MaxSends
  /\ toClient' = toClient \cup {SendMessage(namespace, method, args)}
  /\ sentLog' = Append(sentLog, SendMessage(namespace, method, args))
  /\ waiters' = waiters \cup {[channel |-> channelName(namespace, method),
                               call |-> 0]}
  /\ UNCHANGED <<hostPc, calls>>
  /\ UNCHANGED <<dispatchVars, clientVars, serverVars, appVars>>

\* send: (...args) => contents.send(`send:${channelName}`, ...args)
Send(namespace, method, args) ==
  /\ hostPc = "idle"
  /\ Len(sentLog) < MaxSends
  /\ toClient' = toClient \cup {SendMessage(namespace, method, args)}
  /\ sentLog' = Append(sentLog, SendMessage(namespace, method, args))
  /\ UNCHANGED <<hostPc, calls, waiters>>
  /\ UNCHANGED <<dispatchVars, clientVars, serverVars, appVars>>

\* A reply message arrives at ipcMain: every once-listener on its channel
\* runs and is removed; with no listener the message is dropped.
HostReceive(m) ==
  /\ hostPc = "idle"
  /\ m \in toHost
  /\ toHost' = toHost \ {m}
  /\ waiters' = Remaining(m)
  /\ calls' = [c \in DOMAIN calls |->
                 IF \E w \in Fired(m) : w.call = c
                 THEN OnReply(calls[c], m) ELSE calls[c]]
  /\ UNCHANGED <<hostPc, sentLog, toClient, regs, acts, deliveries, uncaught>>
  /\ UNCHANGED <<dispatchVars, serverVars, appVars>>

(***************************************************************************)
(* Client Dispatch Table: createRendererHandler(...).<ns>.<method>.handle  *)
(***************************************************************************)
\* Callbacks the Client registers with handle, with the method each serves.
Callbacks == {"double", "fetch", "throwLast", "rejectLast", "never"}

HandleInputs ==
  { <<"math", "add", "double">>, <<"math", "add", "fetch">>,
    <<"math", "add", "never">>,
    <<"file", "save", "throwLast">>, <<"file", "save", "rejectLast">> }

\* What handler(...args) does: returns or throws, at once or through a
\* promise, or returns a promise that never settles.
Behaviour(cb, args) ==
  CASE cb = "double" ->
         [kind |-> "return", async |-> FALSE, value |-> Times2(Arg(args, 1))]
    [] cb = "fetch" ->
         [kind |-> "return", async |-> TRUE, value |-> Arg(args, 1)]
    [] cb = "throwLast" ->
         [kind |-> "throw", async |-> FALSE, value |-> Arg(args, Len(args))]
    [] cb = "rejectLast" ->
         [kind |-> "throw", async |-> TRUE, value |-> Arg(args, Len(args))]
    [] OTHER ->
         [kind |-> "never", async |-> TRUE, value |-> Undefined]

\* An envelope that carries the value under another key.
ResultEnvelopeAsValue(v) == [value |-> v]

\* An error envelope that also carries a result field.
ErrorEnvelopeWithResult(e) == [error |-> e, result |-> Undefined]

\* The envelope the wrapper writes: { result } after the try block,
\* { error } from the catch block.
ResultEnvelope(v) == [result |-> v]

ErrorEnvelope(e) == [error |-> e]

Respond(outcome) ==
  IF outcome.kind = "return" THEN ResultEnvelope(outcome.value)
  ELSE ErrorEnvelope(outcome.value)

\* The two Clients attached to the Host: the caller is bound to Client A.
ClientA == "A"
ClientB == "B"

\* A wrapper that keeps the token in a place shared by all activations: the
\* reply goes to the token of the inbound message that arrived last.
ReplyMessageLatestToken(id, envelope, a) ==
  [channel |-> IF acts = << >> THEN id ELSE acts[Len(acts)].id,
   payload |-> envelope, act |-> a, sender |-> ClientA]

\* send(id, envelope) of activation a.  The wrappers run in Client A, the
\* WebContents the caller is bound to.
ReplyMessage(id, envelope, a) ==
  [channel |-> id, payload |-> envelope, act |-> a, sender |-> ClientA]

\* A throw inside handler(...args) itself reaches the catch block in the same
\* turn; everything else passes through `await` first.
SyncThrow(outcome) == outcome.kind = "throw" /\ ~outcome.async

\* An emitter that keeps calling a registration after its cleanup.
ListenersWithRemoved(m) ==
  SelectSeq([i \in 1..Len(regs) |-> i], LAMBDA r : regs[r].channel = m.channel)

\* The registrations the substrate calls for a message, in registration order.
Listeners(m) ==
  SelectSeq([i \in 1..Len(regs) |-> i],
            LAMBDA r : regs[r].active /\ regs[r].channel = m.channel)

\* The wrapper async (__, id, ...args) => {...} of registration r starts.
NewAct(r, m) ==
  LET id == Head(m.payload)
      args == Tail(m.payload)
      outcome == Behaviour(regs[r].cb, args)
  IN [reg |-> r, call |-> m.call, id |-> id, args |-> args,
      outcome |-> outcome,
      status |-> IF SyncThrow(outcome) THEN "done" ELSE "pending",
      sent |-> IF SyncThrow(outcome) THEN 1 ELSE 0]

\* The event object the substrate passes to every listener as first argument.
Event == [type |-> "event", num |-> 0, str |-> ""]

\* ipcRenderer.emit(channel, event, ...payload): what each listener receives.
EmitArgs(m) == <<Event>> \o m.payload

\* The wrapper (_, ...args) => handler(...args) passes on all but the event.
ListenArgs(m) == Tail(EmitArgs(m))

\* The wrapper of registration r runs for message m: handler(...args).  seq
\* names the send the message belongs to, 0 when it is a message of invoke.
NewDelivery(r, m) ==
  LET args == ListenArgs(m)
      outcome == Behaviour(regs[r].cb, args)
  IN [reg |-> r, seq |-> IF m.call = 0 THEN m.seq ELSE 0, args |-> args,
      threw |-> SyncThrow(outcome), value |-> outcome.value]

\* The listen wrapper has no try block: what its callback throws, it throws.
Throws(r, m) ==
  regs[r].kind = "listen" /\ SyncThrow(Behaviour(regs[r].cb, ListenArgs(m)))

\* EventEmitter.emit calls the listeners in registration order and has no
\* try block either: the first listener that throws ends the walk.
Called(m) ==
  LET L == Listeners(m)
      stop == {i \in 1..Len(L) : Throws(L[i], m)}
      last == IF stop = {} THEN Len(L)
              ELSE CHOOSE i \in stop : \A j \in stop : i <= j
  IN SubSeq(L, 1, last)

\* Callbacks the Client registers with listen, with the method each serves.
ListenInputs ==
  { <<"math", "add", "double">>, <<"math", "add", "throwLast">>,
    <<"file", "save", "double">> }

\* listen(handler): on(`send:${channelName}`, wrapper)
Listen(namespace, method, cb) ==
  /\ Len(regs) < MaxRegs
  /\ regs' = Append(regs, [channel |-> sendChannel(namespace, method),
                           cb |-> cb, active |-> TRUE, kind |-> "listen"])
  /\ UNCHANGED <<acts, toHost, deliveries, uncaught>>
  /\ UNCHANGED <<dispatchVars, hostVars, serverVars, appVars>>

\* handle(handler): on(`invoke:${channelName}`, wrapper)
Handle(namespace, method, cb) ==
  /\ Len(regs) < MaxRegs
  /\ regs' = Append(regs, [channel |-> invokeChannel(namespace, method),
                           cb |-> cb, active |-> TRUE, kind |-> "handle"])
  /\ UNCHANGED <<acts, toHost, deliveries, uncaught>>
  /\ UNCHANGED <<dispatchVars, hostVars, serverVars, appVars>>

\* A cleanup that removes every listener of the channel
\* (removeAllListeners) instead of the one wrapper it was returned for.
CleanupRemovesChannel(r) ==
  /\ r \in DOMAIN regs
  /\ regs[r].active
  /\ regs' = [q \in DOMAIN regs |->
                IF regs[q].channel = regs[r].channel
                  THEN [regs[q] EXCEPT !.active = FALSE] ELSE regs[q]]
  /\ UNCHANGED <<acts, toHost, deliveries, uncaught>>
  /\ UNCHANGED <<dispatchVars, hostVars, serverVars, appVars>>

\* The Pending Registration handle returned by handle or listen is called.
Cleanup(r) ==
  /\ r \in DOMAIN regs
  /\ regs[r].active
  /\ regs' = [regs EXCEPT ![r].active = FALSE]
  /\ UNCHANGED <<acts, toHost, deliveries, uncaught>>
  /\ UNCHANGED <<dispatchVars, hostVars, serverVars, appVars>>

\* The same call of the handle, observed: detached keeps the activations of
\* the callback that are suspended at this moment.
CleanupObserved(r) ==
  /\ r \in DOMAIN regs
  /\ regs[r].active
  /\ regs' = [regs EXCEPT ![r].active = FALSE]
  /\ detached' = detached \cup
       {a \in DOMAIN acts : acts[a].reg = r /\ acts[a].status = "pending"}
  /\ UNCHANGED <<acts, toHost, deliveries, uncaught>>
  /\ UNCHANGED <<dispatchVars, hostVars, serverVars, storeVars, connVars,
                 inputVars, addressed>>

\* A message is delivered to the Client: ipcRenderer emits it to the wrappers
\* on its channel.  A handle wrapper starts, and replies at once when its
\* handler throws at once; a listen wrapper calls its callback.
ClientReceive(m) ==
  /\ m \in toClient
  /\ toClient' = toClient \ {m}
  /\ LET L == Called(m)
         H == SelectSeq(L, LAMBDA r : regs[r].kind = "handle")
         S == SelectSeq(L, LAMBDA r : regs[r].kind = "listen")
         new == [i \in 1..Len(H) |-> NewAct(H[i], m)]
         run == [i \in 1..Len(S) |-> NewDelivery(S[i], m)]
     IN /\ acts' = acts \o new
        /\ toHost' = toHost \cup
             {ReplyMessage(new[i].id, Respond(new[i].outcome), Len(acts) + i) :
                i \in {j \in 1..Len(H) : SyncThrow(new[j].outcome)}}
        /\ deliveries' = deliveries \o run
        /\ uncaught' = uncaught \o SelectSeq(run, LAMBDA d : d.threw)
  /\ UNCHANGED <<regs, hostPc, calls, waiters, sentLog>>
  /\ UNCHANGED <<dispatchVars, serverVars, appVars>>

\* A wrapper that gives up its reply once its registration was removed.
CompleteUnlessRemoved(a) ==
  /\ a \in DOMAIN acts
  /\ acts[a].status = "pending"
  /\ acts[a].outcome.kind # "never"
  /\ IF regs[acts[a].reg].active
     THEN /\ acts' = [acts EXCEPT ![a].status = "done", ![a].sent = @ + 1]
          /\ toHost' = toHost \cup
               {ReplyMessage(acts[a].id, Respond(acts[a].outcome), a)}
     ELSE /\ acts' = [acts EXCEPT ![a].status = "done"]
          /\ UNCHANGED toHost
  /\ UNCHANGED <<regs, deliveries, uncaught>>
  /\ UNCHANGED <<dispatchVars, hostVars, serverVars, appVars>>

\* A suspended wrapper resumes: the awaited value arrived, or the awaited
\* promise rejected.
Complete(a) ==
  /\ a \in DOMAIN acts
  /\ acts[a].status = "pending"
  /\ acts[a].outcome.kind # "never"
  /\ acts' = [acts EXCEPT ![a].status = "done", ![a].sent = @ + 1]
  /\ toHost' = toHost \cup
       {ReplyMessage(acts[a].id, Respond(acts[a].outcome), a)}
  /\ UNCHANGED <<regs, deliveries, uncaught>>
  /\ UNCHANGED <<dispatchVars, hostVars, serverVars, appVars>>

\* The envelopes Client B writes.
ForeignEnvelopes == {ResultEnvelope(Str("forged"))}

\* Client B calls window.electron.ipcRenderer.send(channel, envelope) with the
\* token of a pending call of the caller bound to Client A.
ForeignSend(c, envelope) ==
  /\ c \in DOMAIN calls
  /\ calls[c].promise = "pending"
  /\ LET m == [channel |-> calls[c].id, payload |-> envelope,
               act |-> 0, sender |-> ClientB]
     IN /\ m \notin toHost
        /\ toHost' = toHost \cup {m}
  /\ UNCHANGED <<regs, acts, deliveries, uncaught>>
  /\ UNCHANGED <<dispatchVars, hostVars, serverVars, appVars>>

(***************************************************************************)
(* NeovateServerManager: getOrCreate, stop and the completion of a         *)
(* creation.  Creation k is the k-th call of createNeovateServer(); the    *)
(* server it creates and the promise stored for it are named k as well.    *)
(***************************************************************************)
\* Start new creation: this.creationPromise = createNeovateServer().then(..).catch(..)
StartCreation ==
  /\ creations' = Append(creations, [state |-> "pending", closed |-> FALSE,
                                     abandoned |-> FALSE])
  /\ creationPromise' = Len(creations) + 1
  /\ getCalls' = Append(getCalls, [returns |-> "promise",
                                   of |-> Len(creations) + 1,
                                   started |-> TRUE,
                                   result |-> "pending", value |-> 0])
  /\ UNCHANGED instance

\* getOrCreate(): the instance when there is one, else the promise of the
\* creation in progress when there is one, else the promise of a new creation.
GetOrCreate ==
  /\ Len(getCalls) < MaxGets
  /\ IF instance # 0
     THEN /\ getCalls' = Append(getCalls, [returns |-> "instance",
                                           of |-> instance,
                                           started |-> FALSE,
                                           result |-> "resolved",
                                           value |-> instance])
          /\ UNCHANGED <<instance, creationPromise, creations>>
     ELSE IF creationPromise # 0
     THEN /\ getCalls' = Append(getCalls, [returns |-> "promise",
                                           of |-> creationPromise,
                                           started |-> FALSE,
                                           result |-> "pending", value |-> 0])
          /\ UNCHANGED <<instance, creationPromise, creations>>
     ELSE StartCreation
  /\ stopped' = FALSE
  /\ UNCHANGED <<dispatchVars, hostVars, clientVars, appVars>>

\* The calls that were handed the promise of creation k settle with it.
Settle(k, result, value) ==
  [g \in DOMAIN getCalls |->
     IF getCalls[g].returns = "promise" /\ getCalls[g].of = k
     THEN [getCalls[g] EXCEPT !.result = result, !.value = value]
     ELSE getCalls[g]]

\* createNeovateServer() of creation k fulfils: the .then callback runs.
CreationSucceeds(k) ==
  /\ k \in DOMAIN creations
  /\ creations[k].state = "pending"
  /\ creations' = [creations EXCEPT ![k].state = "fulfilled"]
  /\ instance' = k
  /\ creationPromise' = 0
  /\ getCalls' = Settle(k, "resolved", k)
  /\ UNCHANGED stopped
  /\ UNCHANGED <<dispatchVars, hostVars, clientVars, appVars>>

\* createNeovateServer() of creation k rejects: the .catch callback runs.
CreationFails(k) ==
  /\ k \in DOMAIN creations
  /\ creations[k].state = "pending"
  /\ creations' = [creations EXCEPT ![k].state = "rejected"]
  /\ creationPromise' = 0
  /\ getCalls' = Settle(k, "rejected", k)
  /\ UNCHANGED <<instance, stopped>>
  /\ UNCHANGED <<dispatchVars, hostVars, clientVars, appVars>>

\* stop(): this.instance?.close(), then both fields are cleared.  A creation
\* that is pending at this moment is marked abandoned.
Stop ==
  /\ creations' = [k \in DOMAIN creations |->
       [creations[k] EXCEPT
          !.closed = @ \/ k = instance,
          !.abandoned = @ \/ creations[k].state = "pending"]]
  /\ instance' = 0
  /\ creationPromise' = 0
  /\ stopped' = TRUE
  /\ UNCHANGED getCalls
  /\ UNCHANGED <<dispatchVars, hostVars, clientVars, appVars>>

(***************************************************************************)
(* Renderer store (useStore): repos, workspaces, sessions and selections.  *)
(***************************************************************************)
Null == "null"

Paths == {"/a", "/b"}

WorkspaceIdSet == {"w1", "w2"}

SessionIdSet == {"s1", "s2"}

\* Entities as the callers build them: children lists start empty.
RepoInputs == [path : Paths, workspaceIds : {<< >>}]

WorkspaceInputs ==
  {[id |-> "w1", repoPath |-> "/a", sessionIds |-> << >>],
   [id |-> "w2", repoPath |-> "/a", sessionIds |-> << >>],
   [id |-> "w2", repoPath |-> "/b", sessionIds |-> << >>]}

SessionInputs ==
  {[id |-> "s1", workspaceId |-> "w1"], [id |-> "s2", workspaceId |-> "w2"]}

\* state.repos[path] is an object (truthy) exactly when the key is present.
Has(map, k) == k \in DOMAIN map

\* { ...map, [k]: v }
Spread(map, k, v) ==
  [x \in DOMAIN map \cup {k} |-> IF x = k THEN v ELSE map[x]]

\* delete copy[k] for every k of ks; deleting an absent key does nothing.
Delete(map, ks) == [x \in DOMAIN map \ ks |-> map[x]]

includes(list, x) == \E i \in DOMAIN list : list[i] = x

filter(list, x) == SelectSeq(list, LAMBDA y : y # x)

Elements(list) == {list[i] : i \in DOMAIN list}

\* The store action that ran last with the keys it deleted; for an add, the
\* child's id when the parent listed it already; for a selection, the target
\* when the validation refused it.
Op(name, keys) == [op |-> name, keys |-> keys]

addRepo(repo) ==
  /\ repos' = Spread(repos, repo.path, repo)
  /\ lastOp' = Op("addRepo", {})
  /\ UNCHANGED <<workspaces, sessions, selectedRepoPath, selectedWorkspaceId,
                 selectedSessionId>>
  /\ UNCHANGED <<ipcVars, connVars, inputVars, addressed, detached>>

\* A deleteRepo that removes the repo and its workspaces but not their sessions.
deleteRepoKeepsSessions(path) ==
  /\ IF ~Has(repos, path)
       THEN /\ lastOp' = Op("deleteRepo", {})
            /\ UNCHANGED entityVars
       ELSE LET repo == repos[path]
                ws == {w \in Elements(repo.workspaceIds) : Has(workspaces, w)}
                cleared == selectedRepoPath = path
            IN /\ repos' = Delete(repos, {path})
               /\ workspaces' = Delete(workspaces, ws)
               /\ sessions' = sessions
               /\ selectedRepoPath' =
                    IF cleared THEN Null ELSE selectedRepoPath
               /\ selectedWorkspaceId' =
                    IF cleared THEN Null ELSE selectedWorkspaceId
               /\ selectedSessionId' =
                    IF cleared THEN Null ELSE selectedSessionId
               /\ lastOp' = Op("deleteRepo", {path} \cup ws)
  /\ UNCHANGED <<ipcVars, connVars, inputVars, addressed, detached>>

deleteRepo(path) ==
  /\ IF ~Has(repos, path)
       THEN /\ lastOp' = Op("deleteRepo", {})
            /\ UNCHANGED entityVars
       ELSE LET repo == repos[path]
                ws == {w \in Elements(repo.workspaceIds) : Has(workspaces, w)}
                ss == UNION {Elements(workspaces[w].sessionIds) : w \in ws}
                cleared == selectedRepoPath = path
            IN /\ repos' = Delete(repos, {path})
               /\ workspaces' = Delete(workspaces, ws)
               /\ sessions' = Delete(sessions, ss)
               /\ selectedRepoPath' =
                    IF cleared THEN Null ELSE selectedRepoPath
               /\ selectedWorkspaceId' =
                    IF cleared THEN Null ELSE selectedWorkspaceId
               /\ selectedSessionId' =
                    IF cleared THEN Null ELSE selectedSessionId
               /\ lastOp' = Op("deleteRepo",
                               {path} \cup ws \cup (ss \cap DOMAIN sessions))
  /\ UNCHANGED <<ipcVars, connVars, inputVars, addressed, detached>>

\* An addWorkspace that appends the id without looking for it in the list.
addWorkspaceAppendAlways(workspace) ==
  IF Has(repos, workspace.repoPath)
    THEN LET repo == repos[workspace.repoPath]
         IN Spread(repos, workspace.repoPath,
                   [repo EXCEPT !.workspaceIds = Append(@, workspace.id)])
    ELSE repos

\* The repos map after addWorkspace: the id is appended to the parent's list
\* when the parent exists and does not list it yet.
addWorkspaceRepos(workspace) ==
  IF /\ Has(repos, workspace.repoPath)
     /\ ~includes(repos[workspace.repoPath].workspaceIds, workspace.id)
    THEN LET repo == repos[workspace.repoPath]
         IN Spread(repos, workspace.repoPath,
                   [repo EXCEPT !.workspaceIds = Append(@, workspace.id)])
    ELSE repos

addWorkspace(workspace) ==
  /\ workspaces' = Spread(workspaces, workspace.id, workspace)
  /\ repos' = addWorkspaceRepos(workspace)
  /\ lastOp' = Op("addWorkspace",
                  IF /\ Has(repos, workspace.repoPath)
                     /\ includes(repos[workspace.repoPath].workspaceIds,
                                 workspace.id)
                    THEN {workspace.id} ELSE {})
  /\ UNCHANGED <<sessions, selectedRepoPath, selectedWorkspaceId,
                 selectedSessionId>>
  /\ UNCHANGED <<ipcVars, connVars, inputVars, addressed, detached>>

deleteWorkspace(id) ==
  /\ IF ~Has(workspaces, id)
       THEN /\ lastOp' = Op("deleteWorkspace", {})
            /\ UNCHANGED entityVars
       ELSE LET workspace == workspaces[id]
                ss == Elements(workspace.sessionIds)
                cleared == selectedWorkspaceId = id
            IN /\ sessions' = Delete(sessions, ss)
               /\ repos' =
                    IF Has(repos, workspace.repoPath)
                      THEN LET repo == repos[workspace.repoPath]
                           IN Spread(repos, workspace.repoPath,
                                [repo EXCEPT
                                   !.workspaceIds = filter(@, id)])
                      ELSE repos
               /\ workspaces' = Delete(workspaces, {id})
               /\ selectedWorkspaceId' =
                    IF cleared THEN Null ELSE selectedWorkspaceId
               /\ selectedSessionId' =
                    IF cleared THEN Null ELSE selectedSessionId
               /\ lastOp' = Op("deleteWorkspace",
                               {id} \cup (ss \cap DOMAIN sessions))
               /\ UNCHANGED selectedRepoPath
  /\ UNCHANGED <<ipcVars, connVars, inputVars, addressed, detached>>

\* The workspaces map after addSession, before the session itself is stored.
addSessionWorkspaces(session) ==
  IF /\ Has(workspaces, session.workspaceId)
     /\ ~includes(workspaces[session.workspaceId].sessionIds, session.id)
    THEN LET workspace == workspaces[session.workspaceId]
         IN Spread(workspaces, session.workspaceId,
                   [workspace EXCEPT !.sessionIds = Append(@, session.id)])
    ELSE workspaces

addSession(session) ==
  /\ sessions' = Spread(sessions, session.id, session)
  /\ workspaces' = addSessionWorkspaces(session)
  /\ lastOp' = Op("addSession",
                  IF /\ Has(workspaces, session.workspaceId)
                     /\ includes(workspaces[session.workspaceId].sessionIds,
                                 session.id)
                    THEN {session.id} ELSE {})
  /\ UNCHANGED <<repos, selectedRepoPath, selectedWorkspaceId,
                 selectedSessionId>>
  /\ UNCHANGED <<ipcVars, connVars, inputVars, addressed, detached>>

deleteSession(id) ==
  /\ IF ~Has(sessions, id)
       THEN /\ lastOp' = Op("deleteSession", {})
            /\ UNCHANGED entityVars
       ELSE LET session == sessions[id]
            IN /\ workspaces' =
                    IF Has(workspaces, session.workspaceId)
                      THEN LET workspace == workspaces[session.workspaceId]
                           IN Spread(workspaces, session.workspaceId,
                                [workspace EXCEPT
                                   !.sessionIds = filter(@, id)])
                      ELSE workspaces
               /\ sessions' = Delete(sessions, {id})
               /\ selectedSessionId' =
                    IF selectedSessionId = id THEN Null ELSE selectedSessionId
               /\ lastOp' = Op("deleteSession", {id})
               /\ UNCHANGED <<repos, selectedRepoPath, selectedWorkspaceId>>
  /\ UNCHANGED <<ipcVars, connVars, inputVars, addressed, detached>>

\* selectRepo's validation: null, or the path of a stored repo.
selectRepoValid(path) == path = Null \/ Has(repos, path)

selectRepo(path) ==
  /\ IF ~selectRepoValid(path)
       THEN /\ lastOp' = Op("selectRepo", {path})
            /\ UNCHANGED entityVars
       ELSE /\ selectedRepoPath' = path
            /\ selectedWorkspaceId' = Null
            /\ selectedSessionId' = Null
            /\ lastOp' = Op("selectRepo", {})
            /\ UNCHANGED <<repos, workspaces, sessions>>
  /\ UNCHANGED <<ipcVars, connVars, inputVars, addressed, detached>>

\* A validation that does not compare the workspace's repo with the selection.
selectWorkspaceAnyRepo(id) == id = Null \/ Has(workspaces, id)

\* selectWorkspace's validation: null, or a stored workspace that belongs to
\* the selected repo when a repo is selected (a null selection is falsy).
selectWorkspaceValid(id) ==
  \/ id = Null
  \/ /\ Has(workspaces, id)
     /\ ~(selectedRepoPath # Null /\ workspaces[id].repoPath # selectedRepoPath)

selectWorkspace(id) ==
  /\ IF ~selectWorkspaceValid(id)
       THEN /\ lastOp' = Op("selectWorkspace", {id})
            /\ UNCHANGED entityVars
       ELSE /\ selectedWorkspaceId' = id
            /\ selectedSessionId' = Null
            /\ lastOp' = Op("selectWorkspace", {})
            /\ UNCHANGED <<repos, workspaces, sessions, selectedRepoPath>>
  /\ UNCHANGED <<ipcVars, connVars, inputVars, addressed, detached>>

selectSession(id) ==
  /\ selectedSessionId' = id
  /\ lastOp' = Op("selectSession", {})
  /\ UNCHANGED <<repos, workspaces, sessions, selectedRepoPath,
                 selectedWorkspaceId>>
  /\ UNCHANGED <<ipcVars, connVars, inputVars, addressed, detached>>

(***************************************************************************)
(* Renderer store: connection to the backend and sendMessage.              *)
(* The transport and the message bus are external: connect() fulfils or    *)
(* rejects, a request fulfils or rejects, the socket errors or closes.     *)
(***************************************************************************)
\* transport?.isConnected()
IsConnected(t) == t # 0 /\ transports[t].connected

\* A connect() that lets the transport's failure reject its own promise.
ConnectOutcomeRethrows(ok) ==
  [state |-> IF ok THEN "connected" ELSE "error",
   result |-> IF ok THEN "resolved" ELSE "rejected"]

\* What connect does when newTransport.connect() settles: try sets
\* 'connected', catch sets 'error', and the async function returns normally.
ConnectOutcome(ok) ==
  [state |-> IF ok THEN "connected" ELSE "error", result |-> "resolved"]

\* connect(), up to its await.
connect ==
  /\ Len(connects) < MaxConnects
  /\ IF IsConnected(transport)
       THEN /\ connects' = Append(connects,
                 [created |-> 0, attempt |-> "none", result |-> "resolved"])
            /\ UNCHANGED <<state, transport, messageBus, transports>>
       ELSE LET k == Len(transports) + 1
            IN /\ state' = "connecting"
               /\ transports' = Append(transports, [connected |-> FALSE])
               /\ transport' = k
               /\ messageBus' = k
               /\ connects' = Append(connects,
                    [created |-> k, attempt |-> "pending",
                     result |-> "pending"])
  /\ UNCHANGED <<status, sends, disconnects>>
  /\ UNCHANGED <<ipcVars, storeVars, inputVars, addressed, detached>>

\* newTransport.connect() of connect call c settles and connect resumes.
ConnectSettles(c, ok) ==
  /\ c \in DOMAIN connects
  /\ connects[c].attempt = "pending"
  /\ transports' = [transports EXCEPT ![connects[c].created].connected = ok]
  /\ state' = ConnectOutcome(ok).state
  /\ connects' = [connects EXCEPT
       ![c].attempt = IF ok THEN "fulfilled" ELSE "rejected",
       ![c].result = ConnectOutcome(ok).result]
  /\ UNCHANGED <<transport, messageBus, status, sends, disconnects>>
  /\ UNCHANGED <<ipcVars, storeVars, inputVars, addressed, detached>>

\* The socket of transport t reports an error: the onError handler runs.
TransportError(t) ==
  /\ t \in DOMAIN transports
  /\ state' = "error"
  /\ UNCHANGED <<transport, messageBus, transports, connects, status, sends,
                 disconnects>>
  /\ UNCHANGED <<ipcVars, storeVars, inputVars, addressed, detached>>

\* The socket of the connected transport t closes: the onClose handler runs.
TransportClose(t) ==
  /\ t \in DOMAIN transports
  /\ transports[t].connected
  /\ transports' = [transports EXCEPT ![t].connected = FALSE]
  /\ state' = "disconnected"
  /\ UNCHANGED <<transport, messageBus, connects, status, sends,
                 disconnects>>
  /\ UNCHANGED <<ipcVars, storeVars, inputVars, addressed, detached>>

\* request(): throws unless the store is connected and has a message bus.
CanRequest == state = "connected" /\ messageBus # 0

\* randomUUID() for the session of sendMessage call i.
NewSessionId(i) == "uuid-s" \o ToString(i)

\* sendMessage(params), up to its await. When request throws at once, the
\* finally block has set the status back to 'idle' before the call returns.
sendMessage ==
  /\ Len(sends) < MaxSendMessages
  /\ LET i == Len(sends) + 1
         minted == selectedWorkspaceId # Null /\ selectedSessionId = Null
         found == selectedWorkspaceId # Null
                    /\ Has(workspaces, selectedWorkspaceId)
     IN /\ selectedSessionId' =
             IF minted THEN NewSessionId(i) ELSE selectedSessionId
        /\ lastOp' = IF minted THEN Op("selectSession", {}) ELSE lastOp
        /\ status' = IF ~found THEN status
                     ELSE IF CanRequest THEN "processing"
                     ELSE "idle"
        /\ sends' = Append(sends,
             [result |-> IF found /\ CanRequest THEN "pending"
                         ELSE "rejected",
              requested |-> found /\ CanRequest,
              bus |-> IF found /\ CanRequest THEN messageBus ELSE 0])
  /\ UNCHANGED <<repos, workspaces, sessions, selectedRepoPath,
                 selectedWorkspaceId>>
  /\ UNCHANGED <<state, transport, messageBus, transports, connects,
                 disconnects>>
  /\ UNCHANGED <<ipcVars, inputVars, addressed, detached>>

\* The response of sendMessage call i arrives (ok) or its request fails, and
\* the finally block of the call sets the status to 'idle'.
RequestSettles(i, ok) ==
  /\ i \in DOMAIN sends
  /\ sends[i].result = "pending"
  /\ status' = "idle"
  /\ sends' = [sends EXCEPT
       ![i].result = IF ok THEN "resolved" ELSE "rejected"]
  /\ UNCHANGED <<state, transport, messageBus, transports, connects,
                 disconnects>>
  /\ UNCHANGED <<ipcVars, storeVars, inputVars, addressed, detached>>

\* messageBus.cancelPendingRequests(): the requests waiting on message bus b
\* are rejected.
Cancelled(b) ==
  {i \in DOMAIN sends : sends[i].result = "pending" /\ sends[i].bus = b}

\* disconnect(), from `if (messageBus)` on, with the transport and the message
\* bus it read when it was called: the pending requests of the bus are
\* rejected (the finally block of each sendMessage sets the status to 'idle')
\* and the store is reset.
DisconnectEffects(b) ==
  /\ sends' = [i \in DOMAIN sends |->
                 IF b # 0 /\ i \in Cancelled(b)
                 THEN [sends[i] EXCEPT !.result = "rejected"] ELSE sends[i]]
  /\ status' = IF b # 0 /\ Cancelled(b) # {} THEN "idle" ELSE status
  /\ state' = "disconnected"
  /\ transport' = 0
  /\ messageBus' = 0

\* disconnect(), up to its await: with a transport it waits for
\* transport.close(), without one it runs to its end at once.  after is the
\* number of connect calls made when the call completed.
disconnect ==
  /\ Len(disconnects) < MaxDisconnects
  /\ IF transport # 0
       THEN /\ disconnects' = Append(disconnects,
                 [transport |-> transport, bus |-> messageBus,
                  result |-> "pending", after |-> 0])
            /\ UNCHANGED <<state, transport, messageBus, status, sends>>
       ELSE /\ disconnects' = Append(disconnects,
                 [transport |-> 0, bus |-> messageBus,
                  result |-> "resolved", after |-> Len(connects)])
            /\ DisconnectEffects(messageBus)
  /\ UNCHANGED <<transports, connects>>
  /\ UNCHANGED <<ipcVars, storeVars, inputVars, addressed, detached>>

\* transport.close() of disconnect call d settles and disconnect resumes;
\* when close() rejects, so does disconnect, and nothing is reset.
DisconnectResumes(d, ok) ==
  /\ d \in DOMAIN disconnects
  /\ disconnects[d].result = "pending"
  /\ IF ok
       THEN /\ transports' = [transports EXCEPT
                 ![disconnects[d].transport].connected = FALSE]
            /\ DisconnectEffects(disconnects[d].bus)
            /\ disconnects' = [disconnects EXCEPT
                 ![d].result = "resolved", ![d].after = Len(connects)]
       ELSE /\ disconnects' = [disconnects EXCEPT ![d].result = "rejected"]
            /\ UNCHANGED <<state, transport, messageBus, transports, status,
                           sends>>
  /\ UNCHANGED connects
  /\ UNCHANGED <<ipcVars, storeVars, inputVars, addressed, detached>>

(***************************************************************************)
(* Chat input store (useInputStore).                                       *)
(***************************************************************************)
NullValue == [type |-> "null", num |-> 0, str |-> ""]

InitialInput ==
  [value |-> "", cursorPosition |-> 0, historyIndex |-> NullValue,
   draftInput |-> "", history |-> << >>, queuedMessages |-> << >>,
   planMode |-> "normal", thinking |-> Null,
   pastedTextMap |-> << >>, pastedImageMap |-> << >>]

InputTexts == {"", "!ls"}

CursorPositions == {0, 3}

HistoryIndexes == {NullValue, Num(0)}

\* The other actions end a run of toggleThinking calls.
NoToggle == toggleRun' = [start |-> inputState.thinking, n |-> 0]

setValue(value) ==
  /\ inputState' = [inputState EXCEPT !.value = value]
  /\ NoToggle
  /\ UNCHANGED <<ipcVars, storeVars, connVars, addressed, detached>>

setCursorPosition(cursorPosition) ==
  /\ inputState' = [inputState EXCEPT !.cursorPosition = cursorPosition]
  /\ NoToggle
  /\ UNCHANGED <<ipcVars, storeVars, connVars, addressed, detached>>

setHistoryIndex(historyIndex) ==
  /\ inputState' = [inputState EXCEPT !.historyIndex = historyIndex]
  /\ NoToggle
  /\ UNCHANGED <<ipcVars, storeVars, connVars, addressed, detached>>

setDraftInput(draftInput) ==
  /\ inputState' = [inputState EXCEPT !.draftInput = draftInput]
  /\ NoToggle
  /\ UNCHANGED <<ipcVars, storeVars, connVars, addressed, detached>>

addToHistory(text) ==
  /\ Len(inputState.history) < MaxHistory
  /\ inputState' = [inputState EXCEPT !.history = Append(@, text)]
  /\ NoToggle
  /\ UNCHANGED <<ipcVars, storeVars, connVars, addressed, detached>>

togglePlanMode ==
  /\ inputState' = [inputState EXCEPT
       !.planMode = IF @ = "normal" THEN "plan"
                    ELSE IF @ = "plan" THEN "brainstorm"
                    ELSE "normal"]
  /\ NoToggle
  /\ UNCHANGED <<ipcVars, storeVars, connVars, addressed, detached>>

\* A cycle that skips 'medium'.
NextThinkingSkipsMedium(thinking) ==
  IF thinking = Null THEN "low"
  ELSE IF thinking = "low" THEN "high"
  ELSE Null

\* The level toggleThinking stores, from the level it finds.
NextThinking(thinking) ==
  IF thinking = Null THEN "low"
  ELSE IF thinking = "low" THEN "medium"
  ELSE IF thinking = "medium" THEN "high"
  ELSE Null

toggleThinking ==
  /\ toggleRun.n < MaxToggles
  /\ inputState' = [inputState EXCEPT !.thinking = NextThinking(@)]
  /\ toggleRun' = [toggleRun EXCEPT !.n = @ + 1]
  /\ UNCHANGED <<ipcVars, storeVars, connVars, addressed, detached>>

reset ==
  /\ inputState' = [inputState EXCEPT
       !.value = "", !.cursorPosition = 0, !.historyIndex = NullValue,
       !.draftInput = ""]
  /\ NoToggle
  /\ UNCHANGED <<ipcVars, storeVars, connVars, addressed, detached>>

(***************************************************************************)
(* Channel strings of arbitrary names: a name is a sequence of pieces, the *)
(* separator and the reserved prefixes being pieces of their own.          *)
(***************************************************************************)
NameInputs ==
  {<<"a">>, <<"b">>, <<"a", "a">>, <<"a", "b">>, <<"a", ".", "b">>,
   <<"b", ".", "a">>, <<"send:", "a">>, <<"invoke:", "a">>}

Forms == {"plain", "send", "invoke"}

\* namespace.toString(): the pieces written one after the other.
RECURSIVE Text(_)
Text(name) == IF name = << >> THEN "" ELSE Head(name) \o Text(Tail(name))

\* The channel string of one addressing form.
ChannelOf(form, namespace, method) ==
  CASE form = "plain" -> channelName(Text(namespace), Text(method))
    [] form = "send" -> sendChannel(Text(namespace), Text(method))
    [] form = "invoke" -> invokeChannel(Text(namespace), Text(method))

\* A proxy builds the channel string of (namespace, method) in one form.
Address(namespace, method, form) ==
  /\ Len(addressed) < MaxAddressed
  /\ addressed' = Append(addressed,
       [namespace |-> namespace, method |-> method, form |-> form,
        channel |-> ChannelOf(form, namespace, method)])
  /\ UNCHANGED <<ipcVars, storeVars, connVars, inputVars, detached>>

(***************************************************************************)
(* Specifications.                                                         *)
(***************************************************************************)
Init ==
  /\ mainHandlers = {}
  /\ registered = FALSE
  /\ handlers = << >>
  /\ requests = << >>
  /\ invocations = << >>
  /\ hostPc = "idle"
  /\ calls = << >>
  /\ waiters = {}
  /\ sentLog = << >>
  /\ toClient = {}
  /\ regs = << >>
  /\ acts = << >>
  /\ toHost = {}
  /\ deliveries = << >>
  /\ uncaught = << >>
  /\ mainCalls = << >>
  /\ instance = 0
  /\ creationPromise = 0
  /\ creations = << >>
  /\ getCalls = << >>
  /\ stopped = FALSE
  /\ repos = << >>
  /\ workspaces = << >>
  /\ sessions = << >>
  /\ selectedRepoPath = Null
  /\ selectedWorkspaceId = Null
  /\ selectedSessionId = Null
  /\ lastOp = Op("none", {})
  /\ state = "disconnected"
  /\ transport = 0
  /\ messageBus = 0
  /\ transports = << >>
  /\ connects = << >>
  /\ status = "idle"
  /\ sends = << >>
  /\ disconnects = << >>
  /\ inputState = InitialInput
  /\ toggleRun = [start |-> Null, n |-> 0]
  /\ addressed = << >>
  /\ detached = {}

NextDispatch ==
  \/ \E table \in SUBSET Keys : registerMainHandlers(table)
  \/ \E ch \in RequestChannels, payload \in RequestInputs, sender \in Senders :
       HostRequest(ch, payload, sender)
  \/ \E k \in Keys, input \in RequestInputs, sender \in Senders :
       MainCall(k[1], k[2], input, sender)
  \/ \E c \in DOMAIN mainCalls : MainSettle(c)

SpecDispatch == Init /\ [][NextDispatch]_vars

Next ==
  \/ \E k \in RendererKeys, args \in ArgLists : InvokeMint(k[1], k[2], args)
  \/ InvokeOnce
  \/ InvokeSend
  \/ \E m \in toHost : HostReceive(m)
  \/ \E h \in HandleInputs : Handle(h[1], h[2], h[3])
  \/ \E r \in DOMAIN regs : Cleanup(r)
  \/ \E m \in toClient : ClientReceive(m)
  \/ \E a \in DOMAIN acts : Complete(a)

Spec == Init /\ [][Next]_vars

\* The dispatch loops run: a started invoke runs to its end, a written
\* message is delivered, and an awaited value that arrives resumes its wrapper.
Fairness ==
  /\ WF_vars(InvokeOnce)
  /\ WF_vars(InvokeSend)
  /\ WF_vars(\E m \in toClient : ClientReceive(m))
  /\ WF_vars(\E a \in DOMAIN acts : Complete(a))
  /\ WF_vars(\E m \in toHost : HostReceive(m))

LiveSpec == Spec /\ Fairness

\* Fire-and-forget next to request/response, MaxSends messages in all.
NextSend ==
  \/ \E k \in RendererKeys, args \in ArgLists : Send(k[1], k[2], args)
  \/ \E l \in ListenInputs : Listen(l[1], l[2], l[3])
  \/ \E h \in HandleInputs : Handle(h[1], h[2], h[3])
  \/ \E r \in DOMAIN regs : Cleanup(r)
  \/ \E m \in toClient : ClientReceive(m)
  \/ \E k \in RendererKeys, args \in ArgLists :
       Len(sentLog) < MaxSends /\ InvokeMint(k[1], k[2], args)
  \/ InvokeOnce
  \/ InvokeSend
  \/ \E a \in DOMAIN acts : Complete(a)
  \/ \E m \in toHost : HostReceive(m)

SpecSend == Init /\ [][NextSend]_vars

NextServer ==
  \/ GetOrCreate
  \/ Stop
  \/ \E k \in DOMAIN creations : CreationSucceeds(k)
  \/ \E k \in DOMAIN creations : CreationFails(k)

SpecServer == Init /\ [][NextServer]_vars

\* Spec with the calls of the Pending Registration handles observed.
NextDetach ==
  \/ \E k \in RendererKeys, args \in ArgLists : InvokeMint(k[1], k[2], args)
  \/ InvokeOnce
  \/ InvokeSend
  \/ \E m \in toHost : HostReceive(m)
  \/ \E h \in HandleInputs : Handle(h[1], h[2], h[3])
  \/ \E r \in DOMAIN regs : CleanupObserved(r)
  \/ \E m \in toClient : ClientReceive(m)
  \/ \E a \in DOMAIN acts : Complete(a)

SpecDetach == Init /\ [][NextDetach]_vars

\* The round trip with a second Client attached to the Host.
NextTwoClients ==
  \/ \E k \in RendererKeys, args \in ArgLists : InvokeMint(k[1], k[2], args)
  \/ InvokeOnce
  \/ InvokeSend
  \/ \E m \in toHost : HostReceive(m)
  \/ \E cb \in {"double", "never"} : Handle("math", "add", cb)
  \/ \E m \in toClient : ClientReceive(m)
  \/ \E a \in DOMAIN acts : Complete(a)
  \/ \E c \in DOMAIN calls, e \in ForeignEnvelopes : ForeignSend(c, e)

SpecTwoClients == Init /\ [][NextTwoClients]_vars

NextStore ==
  \/ \E repo \in RepoInputs : addRepo(repo)
  \/ \E path \in Paths : deleteRepo(path)
  \/ \E workspace \in WorkspaceInputs : addWorkspace(workspace)
  \/ \E id \in WorkspaceIdSet : deleteWorkspace(id)
  \/ \E session \in SessionInputs : addSession(session)
  \/ \E id \in SessionIdSet : deleteSession(id)
  \/ \E path \in Paths \cup {Null} : selectRepo(path)
  \/ \E id \in WorkspaceIdSet \cup {Null} : selectWorkspace(id)
  \/ \E id \in SessionIdSet \cup {Null} : selectSession(id)

SpecStore == Init /\ [][NextStore]_vars

\* The connection and sendMessage, with one workspace to select.
NextConn ==
  \/ connect
  \/ \E c \in DOMAIN connects, ok \in BOOLEAN : ConnectSettles(c, ok)
  \/ \E t \in DOMAIN transports : TransportError(t)
  \/ \E t \in DOMAIN transports : TransportClose(t)
  \/ \E workspace \in {w \in WorkspaceInputs : w.id = "w1"} :
       addWorkspace(workspace)
  \/ \E id \in {"w1", Null} : selectWorkspace(id)
  \/ sendMessage
  \/ \E i \in DOMAIN sends, ok \in BOOLEAN : RequestSettles(i, ok)

SpecConn == Init /\ [][NextConn]_vars

\* connect, disconnect and the callbacks of the transports.
NextDisconnect ==
  \/ connect
  \/ \E c \in DOMAIN connects, ok \in BOOLEAN : ConnectSettles(c, ok)
  \/ \E t \in DOMAIN transports : TransportError(t)
  \/ \E t \in DOMAIN transports : TransportClose(t)
  \/ disconnect
  \/ \E d \in DOMAIN disconnects, ok \in BOOLEAN : DisconnectResumes(d, ok)

SpecDisconnect == Init /\ [][NextDisconnect]_vars

NextInput ==
  \/ \E value \in InputTexts : setValue(value)
  \/ \E cursorPosition \in CursorPositions : setCursorPosition(cursorPosition)
  \/ \E historyIndex \in HistoryIndexes : setHistoryIndex(historyIndex)
  \/ \E draftInput \in InputTexts : setDraftInput(draftInput)
  \/ \E text \in InputTexts \ {""} : addToHistory(text)
  \/ togglePlanMode
  \/ toggleThinking
  \/ reset

SpecInput == Init /\ [][NextInput]_vars

NextChannel ==
  \E namespace \in NameInputs, method \in NameInputs, form \in Forms :
    Address(namespace, method, form)

SpecChannel == Init /\ [][NextChannel]_vars

(***************************************************************************)
(* Host Dispatch Table properties (SpecDispatch).                          *)
(***************************************************************************)
\* The procedures of the table addressed by a channel string.
AddressedBy(ch) == {e \in mainHandlers : e[1] \o "." \o e[2] = ch}

\* The invocations a request caused.
InvocationsOf(n) == {i \in DOMAIN invocations : invocations[i].request = n}

\* C1 (P1, routing): after register(table) the bound channels are exactly the
\* "<namespace>.<method>" strings of the table's entries, one per entry, each
\* bound to its own entry's procedure; a request on such a channel invokes
\* that entry's procedure exactly once with the request's input, and a
\* request invokes no other procedure.
C1_Routing ==
  registered =>
    /\ DOMAIN handlers = {e[1] \o "." \o e[2] : e \in mainHandlers}
    /\ Cardinality(DOMAIN handlers) = Cardinality(mainHandlers)
    /\ \A e \in mainHandlers : handlers[e[1] \o "." \o e[2]] = e
    /\ \A n \in {k \in DOMAIN requests : requests[k].afterRegister} :
         /\ Cardinality(InvocationsOf(n)) = Cardinality(AddressedBy(requests[n].channel))
         /\ \A i \in InvocationsOf(n) :
              /\ invocations[i].proc \in AddressedBy(requests[n].channel)
              /\ invocations[i].input = requests[n].payload

\* C1 witness: a table with two entries that share a method name is
\* registered and a request on one of them has been dispatched.
C1_Witness ==
  /\ registered
  /\ {<<"file", "save">>, <<"math", "save">>} \subseteq mainHandlers
  /\ \E i \in DOMAIN invocations :
       /\ invocations[i].proc = <<"math", "save">>
       /\ requests[invocations[i].request].channel = "math.save"

\* The invocation made for Client-to-Host call c, if any.
InvocationsFor(c) == InvocationsOf(mainCalls[c].request)

\* C14 (P2): a Client-to-Host call namespace.method(x) issues one native
\* request, its own, on channel "<namespace>.<method>" with x as payload; no
\* token is minted and no waiter registered; and when a procedure p is bound
\* at (namespace, method) and returns for x, the settled future is resolved
\* with the value p returns.
C14_ClientToHost ==
  /\ calls = << >> /\ waiters = {} /\ sentLog = << >>
  /\ \A c \in DOMAIN mainCalls :
       LET n == mainCalls[c].request
           e == <<mainCalls[c].namespace, mainCalls[c].method>>
           out == Procedure(e, [sender |-> requests[n].sender], mainCalls[c].input)
       IN /\ n \in DOMAIN requests
          /\ requests[n].channel = e[1] \o "." \o e[2]
          /\ requests[n].payload = mainCalls[c].input
          /\ \A b \in DOMAIN mainCalls : mainCalls[b].request = n => b = c
          /\ ( /\ e \in mainHandlers
               /\ requests[n].afterRegister
               /\ out.kind = "return"
               /\ mainCalls[c].future # "pending" ) =>
                 /\ mainCalls[c].future = "resolved"
                 /\ mainCalls[c].value = out.value

\* C14 witness: math.add("boom") has resolved to "boom" * 2, and the call
\* file.add(0) of sender 2 to the number of its sender.
C14_Witness ==
  /\ \E c \in DOMAIN mainCalls :
       /\ mainCalls[c].namespace = "math" /\ mainCalls[c].method = "add"
       /\ mainCalls[c].input = Str("boom")
       /\ mainCalls[c].future = "resolved" /\ mainCalls[c].value = NaN
  /\ \E c \in DOMAIN mainCalls :
       /\ mainCalls[c].namespace = "file" /\ mainCalls[c].method = "add"
       /\ mainCalls[c].future = "resolved" /\ mainCalls[c].value = Num(2)

\* C15: every invocation receives as input the payload of its request and
\* as context the sender the substrate supplied for that request; two
\* invocations for requests of one sender receive the same context, whatever
\* their payloads hold.
C15_ContextIntegrity ==
  /\ \A i \in DOMAIN invocations :
       /\ invocations[i].input = requests[invocations[i].request].payload
       /\ invocations[i].context =
            [sender |-> requests[invocations[i].request].sender]
  /\ \A i, j \in DOMAIN invocations :
       requests[invocations[i].request].sender =
         requests[invocations[j].request].sender =>
           invocations[i].context = invocations[j].context

\* C15 witness: sender 1 made two requests, one of them with a payload that
\* names sender 2; both were dispatched.
C15_Witness ==
  \E i, j \in DOMAIN invocations :
    /\ requests[invocations[i].request].sender = 1
    /\ requests[invocations[j].request].sender = 1
    /\ invocations[i].input = Forged(2)
    /\ invocations[j].input # Forged(2)

\* C16: when the procedure called for a Client-to-Host call fails, the
\* settled future of the call is rejected with that failure; the failure
\* changes no binding: requests on one channel reach one procedure, the one
\* still bound on the channel.
C16_HostFailure ==
  /\ \A c \in DOMAIN mainCalls : \A i \in InvocationsFor(c) :
       LET out == Procedure(invocations[i].proc, invocations[i].context,
                            invocations[i].input)
       IN (out.kind = "throw" /\ mainCalls[c].future # "pending") =>
            /\ mainCalls[c].future = "rejected"
            /\ mainCalls[c].value = out.value
  /\ \A i, j \in DOMAIN invocations :
       requests[invocations[i].request].channel =
         requests[invocations[j].request].channel =>
           invocations[i].proc = invocations[j].proc
  /\ \A i \in DOMAIN invocations :
       handlers[requests[invocations[i].request].channel] = invocations[i].proc

\* C16 witness: file.save(0) was rejected with 0, and a request made
\* afterwards on the same channel was dispatched to the same procedure.
C16_Witness ==
  \E c \in DOMAIN mainCalls :
    /\ mainCalls[c].request = 1
    /\ mainCalls[c].future = "rejected"
    /\ mainCalls[c].value = Num(0)
    /\ \E i \in DOMAIN invocations :
         /\ invocations[i].request = 2
         /\ requests[2].channel = requests[1].channel
         /\ invocations[i].proc = <<"file", "save">>

(***************************************************************************)
(* Host-to-Client invoke properties (Spec, LiveSpec).                      *)
(***************************************************************************)
CallIds == 1..MaxCalls
ActIds == 1..(MaxCalls * MaxRegs)

Settled(c) == calls[c].promise # "pending"

HasWaiter(c) == \E w \in waiters : w.call = c

\* The invoke call c has returned its promise: all of its statements ran.
Issued(c) == c \in DOMAIN calls /\ (c < Len(calls) \/ hostPc = "idle")

\* The message of call c has been written with contents.send.
Sent(c) == \E i \in DOMAIN sentLog : sentLog[i].call = c

\* The activations the message of call c started on the Client.
ActsOf(c) == {a \in DOMAIN acts : acts[a].call = c}

\* Activation a was started by the message of call c and its callback returns.
Returns(a, c) ==
  /\ c \in DOMAIN calls
  /\ a \in DOMAIN acts
  /\ acts[a].call = c
  /\ acts[a].outcome.kind = "return"

ResolvedWith(c, v) ==
  c \in DOMAIN calls /\ calls[c].promise = "resolved" /\ calls[c].value = v

\* C2 as claimed (P4): a settled invoke whose message reached a registered
\* callback f that returns has resolved to f(args).
C2_AsClaimed ==
  \A c \in DOMAIN calls : \A a \in DOMAIN acts :
    (Returns(a, c) /\ Settled(c)) => ResolvedWith(c, acts[a].outcome.value)

\* The message of call c was delivered to exactly one callback, which returns.
SoleReturn(c) == \E a \in DOMAIN acts : Returns(a, c) /\ ActsOf(c) = {a}

\* Call c has resolved to the value its only callback returned.
RoundTripDone(c) ==
  \E a \in DOMAIN acts :
    /\ Returns(a, c)
    /\ ActsOf(c) = {a}
    /\ ResolvedWith(c, acts[a].outcome.value)

\* C2 amended (P4): when f is the only callback registered on the channel at
\* the time the invoke message is delivered and f returns (at once or through
\* a promise), the invoke eventually resolves to f(args).
C2_RoundTrip == \A c \in CallIds : SoleReturn(c) ~> RoundTripDone(c)

\* C2 witness: an invoke of 21 answered by the only, asynchronous, callback
\* on its channel has resolved to that callback's value.
C2_Witness ==
  \E c \in DOMAIN calls : \E a \in DOMAIN acts :
    /\ Returns(a, c)
    /\ ActsOf(c) = {a}
    /\ acts[a].outcome.async
    /\ calls[c].args = <<Num(21), Str("boom")>>
    /\ ResolvedWith(c, Num(21))

\* C3 (P5): when the envelope that settles an invoke comes from a callback
\* that threw or rejected with E, the invoke is rejected with exactly E.
C3_ErrorPropagation ==
  \A c \in DOMAIN calls :
    (Settled(c) /\ acts[calls[c].settledBy].outcome.kind = "throw") =>
      /\ calls[c].promise = "rejected"
      /\ calls[c].value = acts[calls[c].settledBy].outcome.value

\* C4 (P6): any two invoke calls carry distinct tokens, in the call records
\* and in the messages written to the Client.
C4_TokenFreshness ==
  /\ \A c, d \in DOMAIN calls : c # d => calls[c].id # calls[d].id
  /\ \A i, j \in DOMAIN sentLog :
       i # j => sentLog[i].payload[1] # sentLog[j].payload[1]

\* C4 witness: a second invoke on the same (namespace, method) has minted its
\* token after the first call's waiter was consumed.
C4_Witness ==
  /\ Len(calls) = 2
  /\ hostPc = "once"
  /\ Settled(1)
  /\ calls[1].namespace = calls[2].namespace
  /\ calls[1].method = calls[2].method

\* C5: every settled invoke was settled by an envelope that an activation
\* started by its own message wrote, and its outcome is that envelope's.
C5_MatchByToken ==
  \A c \in DOMAIN calls :
    Settled(c) =>
      /\ calls[c].settledBy \in ActsOf(c)
      /\ acts[calls[c].settledBy].id = calls[c].id
      /\ acts[calls[c].settledBy].args = calls[c].args

\* C5 witness: two calls were outstanding at once and the reply of the
\* second arrived before the reply of the first.
C5_Witness ==
  /\ Len(calls) = 2
  /\ Settled(2)
  /\ ~Settled(1)
  /\ \E m \in toHost : acts[m.act].call = 1

\* The reply messages of activation a still in flight.
RepliesInFlight(a) == {m \in toHost : m.act = a}

\* C6: every activation of a handle callback writes at most one envelope,
\* none while it is suspended and exactly one once it has completed; the
\* envelope goes to the channel named by the token of the inbound message
\* and holds the result field alone when the callback returned and the error
\* field alone when it threw or rejected.
C6_OneEnvelope ==
  /\ \A a \in DOMAIN acts :
       /\ acts[a].sent <= 1
       /\ acts[a].status = "pending" => acts[a].sent = 0
       /\ acts[a].status = "done" => acts[a].sent = 1
       /\ Cardinality(RepliesInFlight(a)) <= acts[a].sent
       /\ acts[a].id = calls[acts[a].call].id
  /\ \A m \in toHost :
       /\ m.channel = acts[m.act].id
       /\ DOMAIN m.payload \in {{"result"}, {"error"}}
       /\ acts[m.act].outcome.kind = "return" =>
            m.payload = [result |-> acts[m.act].outcome.value]
       /\ acts[m.act].outcome.kind = "throw" =>
            m.payload = [error |-> acts[m.act].outcome.value]

\* C6 witness: one inbound message was answered with a result envelope and
\* another, whose callback rejected through a promise, with an error
\* envelope; both envelopes are in flight.
C6_Witness ==
  /\ \E m \in toHost : DOMAIN m.payload = {"result"}
  /\ \E m \in toHost : DOMAIN m.payload = {"error"} /\ acts[m.act].outcome.async

\* A reply of activation a has arrived at the Host.
Arrived(a) ==
  a \in DOMAIN acts /\ acts[a].status = "done" /\ RepliesInFlight(a) = {}

\* C7: a settled call has no waiter left and its record never changes again;
\* an arriving envelope settles only calls that wait on its token, removes
\* exactly their waiters, and when nothing waits on its token (a later
\* envelope for a settled call) it changes no call and no waiter.
C7_SettleOnce ==
  [][ /\ \A c \in DOMAIN calls :
           /\ Settled(c) => (~HasWaiter(c) /\ calls'[c] = calls[c])
           /\ (~Settled(c) /\ calls'[c].promise # "pending") =>
                /\ HasWaiter(c)
                /\ \E m \in toHost \ toHost' :
                     m.channel = calls[c].id /\ calls'[c].settledBy = m.act
                /\ \A w \in waiters' : w.call # c
      /\ \A m \in toHost \ toHost' :
           (\A c \in DOMAIN calls : calls[c].id = m.channel => Settled(c)) =>
             (calls' = calls /\ waiters' = waiters)
    ]_vars

\* C7 witness: two callbacks on one channel both answered a call; the first
\* envelope settled it and the second has arrived as well.
C7_Witness ==
  \E c \in DOMAIN calls : \E a, b \in ActsOf(c) :
    /\ a # b
    /\ Settled(c)
    /\ calls[c].settledBy = a
    /\ Arrived(b)

\* C8: a waiter is removed, and a pending call settles, only in a step in
\* which an envelope arrives on the call's token channel; so a call the
\* Client never answers keeps its waiter and stays pending.
C8_UnboundedWait ==
  [][ \A c \in DOMAIN calls :
        ( \/ (HasWaiter(c) /\ \A w \in waiters' : w.call # c)
          \/ (~Settled(c) /\ calls'[c].promise # "pending") ) =>
          \E m \in toHost \ toHost' : m.channel = calls[c].id
    ]_vars

\* C8 witness: the message of the first call was delivered while no callback
\* was registered on its channel; a later call has been answered and has
\* settled, and the first call still waits.
C8_Witness ==
  /\ Len(calls) = 2
  /\ Issued(1)
  /\ sentLog[1] \notin toClient
  /\ ActsOf(1) = {}
  /\ Settled(2)
  /\ HasWaiter(1)
  /\ ~Settled(1)

\* The state of call c in the lifecycle of an invoke call.
Lifecycle(c) ==
  CASE calls[c].promise = "resolved" -> "Resolved"
    [] calls[c].promise = "rejected" -> "Rejected"
    [] HasWaiter(c) -> "Awaiting"
    [] OTHER -> "Created"

\* The transitions of the lifecycle.
LifecycleStep(from, to) ==
  \/ from = to
  \/ from = "Created" /\ to = "Awaiting"
  \/ from = "Awaiting" /\ to \in {"Resolved", "Rejected"}

\* C9 as claimed: in Created the token is minted and the message is sent,
\* and the waiter is registered only after that, in Awaiting.
C9_AsClaimed ==
  \A c \in DOMAIN calls :
    /\ Lifecycle(c) = "Created" => (Sent(c) /\ ~HasWaiter(c))
    /\ Lifecycle(c) = "Awaiting" => (Sent(c) /\ HasWaiter(c))

\* C9 amended: a call is Created when its token is minted, with no waiter
\* and no message yet; it becomes Awaiting when its waiter is registered,
\* and its message is sent only then; from Awaiting it moves to exactly one
\* of Resolved and Rejected, in a step in which a reply arrives on its
\* token; a terminal state is never left.
C9_Lifecycle ==
  [][ \A c \in DOMAIN calls :
        /\ Lifecycle(c) = "Created" => ~Sent(c)
        /\ Sent(c)' => Lifecycle(c)' # "Created"
        /\ LifecycleStep(Lifecycle(c), Lifecycle(c)')
        /\ Lifecycle(c) \in {"Resolved", "Rejected"} => calls'[c] = calls[c]
        /\ (Lifecycle(c) = "Awaiting" /\ Lifecycle(c)' # "Awaiting") =>
             \E m \in toHost \ toHost' : m.channel = calls[c].id
    ]_vars

\* C9 witness: one call has been rejected and another resolved.
C9_Witness ==
  /\ Len(calls) = 2
  /\ {Lifecycle(1), Lifecycle(2)} = {"Resolved", "Rejected"}
  /\ calls[1].promise = "rejected"

\* The messages written for call c.
MessagesOf(c) == {i \in DOMAIN sentLog : sentLog[i].call = c}

\* C10: an invoke(args) that has returned wrote exactly one message, on
\* channel "invoke:<namespace>.<method>", with payload (token, ...args); and
\* until a reply arrives it has exactly one waiter, on the channel named by
\* its token, and no other call waits on that channel.
C10_InvokeWrites ==
  \A c \in DOMAIN calls :
    Issued(c) =>
      /\ Cardinality(MessagesOf(c)) = 1
      /\ \A i \in MessagesOf(c) :
           /\ sentLog[i].channel =
                "invoke:" \o calls[c].namespace \o "." \o calls[c].method
           /\ Len(sentLog[i].payload) = 1 + Len(calls[c].args)
           /\ Head(sentLog[i].payload) = calls[c].id
           /\ Tail(sentLog[i].payload) = calls[c].args
      /\ ~Settled(c) =>
           /\ {w \in waiters : w.call = c} = {[channel |-> calls[c].id, call |-> c]}
           /\ \A w \in waiters : w.channel = calls[c].id => w.call = c

\* C10 witness: an invoke with two arguments has returned and is waiting.
C10_Witness ==
  \E c \in DOMAIN calls :
    /\ Issued(c)
    /\ calls[c].args = <<Num(21), Str("boom")>>
    /\ HasWaiter(c)
    /\ sentLog[c] \in toClient

(***************************************************************************)
(* Fire-and-forget properties (SpecSend).                                  *)
(***************************************************************************)
\* This step is a call of send: it wrote a message that carries no token.
SendStep ==
  /\ Len(sentLog') = Len(sentLog) + 1
  /\ sentLog'[Len(sentLog')].call = 0

\* The fire-and-forget messages this step delivers to the Client.
SendsDelivered == {m \in toClient : m.call = 0 /\ m \notin toClient'}

\* The deliveries this step adds.
NewDeliveries == {i \in DOMAIN deliveries' : i > Len(deliveries)}

\* The active listen registrations on the channel of m.
Bound(m) ==
  {r \in DOMAIN regs :
     regs[r].active /\ regs[r].kind = "listen" /\ regs[r].channel = m.channel}

\* C11 (P3, SilentDrop): send begins and ends in one step of the Host, mints
\* no token and leaves the waiter registry alone; and the delivery of its
\* message - to no listener, to listeners that return, to a listener that
\* throws - changes nothing the Host holds and writes nothing to the Host.
C11_FireAndForget ==
  [][ /\ SendStep =>
           /\ hostPc = "idle" /\ hostPc' = "idle"
           /\ calls' = calls
           /\ waiters' = waiters
           /\ toHost' = toHost
      /\ SendsDelivered # {} =>
           /\ hostPc' = hostPc
           /\ calls' = calls
           /\ waiters' = waiters
           /\ sentLog' = sentLog
           /\ toHost' = toHost
    ]_vars

\* C11 witness: while an invoke waits for its answer, a send was delivered
\* to a listener that threw.
C11_Witness ==
  /\ \E c \in DOMAIN calls : HasWaiter(c) /\ ~Settled(c)
  /\ uncaught # << >>

\* C12 (P8): send writes one message on "send:<namespace>.<method>", and
\* when it is delivered every callback bound with listen on that channel is
\* called once, with exactly the arguments of the send, in order, and without
\* the event object.
C12_ArgumentFidelity ==
  [][ /\ SendStep =>
           \E k \in RendererKeys :
             sentLog'[Len(sentLog')].channel = "send:" \o k[1] \o "." \o k[2]
      /\ \A m \in SendsDelivered :
           /\ \A r \in Bound(m) :
                Cardinality({i \in NewDeliveries : deliveries'[i].reg = r}) = 1
           /\ \A i \in NewDeliveries :
                /\ deliveries'[i].reg \in Bound(m)
                /\ deliveries'[i].args = sentLog[m.seq].payload
    ]_vars

\* The activations and deliveries made for registration r.
ActsOfReg(r) == {a \in DOMAIN acts : acts[a].reg = r}

DeliveriesOfReg(r) == {i \in DOMAIN deliveries : deliveries[i].reg = r}

\* C13 (P7): once the cleanup handle of a registration made with listen or
\* handle has been called, the registration stays removed and its callback
\* is never called again, whatever arrives on its channel.
C13_Cleanup ==
  [][ \A r \in DOMAIN regs :
        ~regs[r].active =>
          /\ ~regs'[r].active
          /\ ActsOfReg(r)' = ActsOfReg(r)
          /\ DeliveriesOfReg(r)' = DeliveriesOfReg(r)
    ]_vars

\* C13 witness: of two callbacks bound with listen on one channel the first
\* was removed; a message that arrived afterwards reached the second alone.
C13_Witness ==
  \E r, q \in DOMAIN regs :
    /\ r < q
    /\ regs[r].kind = "listen"
    /\ regs[r].channel = regs[q].channel
    /\ ~regs[r].active
    /\ \E i \in DeliveriesOfReg(q) :
         \A j \in DeliveriesOfReg(r) : deliveries[j].seq # deliveries[i].seq

\* C17: no failure raised by a Client callback, of handle or of listen,
\* leaves its wrapper and reaches the emitter that called it.
C17_FailuresRecovered == uncaught = << >>

(***************************************************************************)
(* NeovateServerManager properties (SpecServer).                           *)
(***************************************************************************)
\* This step is a call of getOrCreate.
GetStep == Len(getCalls') = Len(getCalls) + 1

\* The creations in progress that no stop() has abandoned.
InProgress ==
  {k \in DOMAIN creations :
     creations[k].state = "pending" /\ ~creations[k].abandoned}

\* The servers that are alive: created and not closed.
Alive ==
  {k \in DOMAIN creations :
     creations[k].state = "fulfilled" /\ ~creations[k].closed}

\* C18: a getOrCreate call made while a creation is in progress is handed
\* the promise of that creation and starts no creation; a getOrCreate call
\* made after a creation has succeeded (and before any stop) is handed the
\* instance it created and starts no creation.
C18_SingleFlight ==
  [][ GetStep =>
        LET g == getCalls'[Len(getCalls')]
        IN /\ InProgress # {} =>
                /\ ~g.started
                /\ creations' = creations
                /\ g.returns = "promise"
                /\ InProgress = {g.of}
           /\ (InProgress = {} /\ Alive # {}) =>
                /\ ~g.started
                /\ creations' = creations
                /\ g.returns = "instance"
                /\ g.of \in Alive
    ]_vars

\* C19: when a creation in progress fails, the calls that were handed its
\* promise are rejected with its failure and the manager is idle, with no
\* instance and no promise; and no getOrCreate call is handed the promise
\* of a creation that has failed: in the idle state it starts a new one.
C19_FailureResets ==
  [][ /\ \A k \in InProgress :
           creations'[k].state = "rejected" =>
             /\ instance' = 0
             /\ creationPromise' = 0
             /\ \A g \in DOMAIN getCalls :
                  (getCalls[g].returns = "promise" /\ getCalls[g].of = k) =>
                    (getCalls'[g].result = "rejected" /\ getCalls'[g].value = k)
      /\ GetStep =>
           LET g == getCalls'[Len(getCalls')]
           IN /\ g.returns = "promise" => creations'[g.of].state = "pending"
              /\ (instance = 0 /\ creationPromise = 0) => g.started
    ]_vars

\* C20: at most one created server is alive, and a server that is alive is
\* the one the manager holds.
C20_OneInstance ==
  /\ Cardinality(Alive) <= 1
  /\ \A k \in Alive : instance = k

\* The servers that have been closed.
Closed == {k \in DOMAIN creations : creations[k].closed}

\* C32: from a stop() to the next getOrCreate call the manager holds no
\* instance and no creation promise, also when a creation that was in flight
\* at the stop completes in between; and a second stop() in that time changes
\* neither field and closes nothing.
C32_StopResets ==
  [][/\ stopped' => (instance' = 0 /\ creationPromise' = 0)
     /\ (Stop /\ stopped) =>
          /\ UNCHANGED <<instance, creationPromise>>
          /\ Closed' = Closed]_vars

(***************************************************************************)
(* Renderer store properties (SpecStore).                                  *)
(***************************************************************************)
\* The workspaces listed by the stored repo at path, and the sessions listed
\* by those of them that are stored.
ListedWorkspaces(path) == Elements(repos[path].workspaceIds)

ListedSessions(path) ==
  UNION {Elements(workspaces[w].sessionIds) :
           w \in ListedWorkspaces(path) \cap DOMAIN workspaces}

\* map is the same after the step on every key outside gone, and has no new key.
KeptOutside(map, mapAfter, gone) ==
  /\ DOMAIN mapAfter \subseteq DOMAIN map
  /\ \A k \in DOMAIN map \ gone : Has(mapAfter, k) /\ mapAfter[k] = map[k]

\* C21: deleteRepo(path) on a stored repo leaves the repo, every workspace in
\* its workspaceIds and every session in those workspaces' sessionIds absent,
\* and every other repo, workspace and session as it was; on an unknown path
\* it changes nothing.
C21_CascadeDelete ==
  [][\A path \in Paths :
       deleteRepo(path) =>
         IF Has(repos, path)
           THEN /\ ~Has(repos', path)
                /\ \A w \in ListedWorkspaces(path) : ~Has(workspaces', w)
                /\ \A x \in ListedSessions(path) : ~Has(sessions', x)
                /\ KeptOutside(repos, repos', {path})
                /\ KeptOutside(workspaces, workspaces', ListedWorkspaces(path))
                /\ KeptOutside(sessions, sessions', ListedSessions(path))
           ELSE UNCHANGED entityVars]_vars

\* deleteRepo has just removed a repo with a workspace and a session of it,
\* and a workspace and a session outside that repo are still stored.
C21_Witness ==
  /\ lastOp.op = "deleteRepo"
  /\ lastOp.keys \cap Paths # {}
  /\ lastOp.keys \cap WorkspaceIdSet # {}
  /\ lastOp.keys \cap SessionIdSet # {}
  /\ DOMAIN workspaces # {}
  /\ DOMAIN sessions # {}

\* The number of times x occurs in list.
Count(list, x) == Cardinality({i \in DOMAIN list : list[i] = x})

C23_NoOrphans ==
  /\ \A w \in DOMAIN workspaces :
       \E path \in DOMAIN repos : includes(repos[path].workspaceIds, w)
  /\ \A x \in DOMAIN sessions :
       \E w \in DOMAIN workspaces : includes(workspaces[w].sessionIds, x)

\* C26: selectRepo on a path that is not stored, and selectWorkspace on an id
\* that is not stored or whose workspace belongs to another repo than the
\* selected one, change nothing; otherwise selectRepo sets selectedRepoPath
\* and nulls both child selections, and selectWorkspace sets
\* selectedWorkspaceId and nulls selectedSessionId.
C26_SelectionValidated ==
  [][/\ \A path \in Paths \cup {Null} :
          selectRepo(path) =>
            IF path # Null /\ ~Has(repos, path)
              THEN UNCHANGED entityVars
              ELSE /\ selectedRepoPath' = path
                   /\ selectedWorkspaceId' = Null
                   /\ selectedSessionId' = Null
                   /\ UNCHANGED <<repos, workspaces, sessions>>
     /\ \A id \in WorkspaceIdSet \cup {Null} :
          selectWorkspace(id) =>
            IF /\ id # Null
               /\ \/ ~Has(workspaces, id)
                  \/ /\ selectedRepoPath # Null
                     /\ workspaces[id].repoPath # selectedRepoPath
              THEN UNCHANGED entityVars
              ELSE /\ selectedWorkspaceId' = id
                   /\ selectedSessionId' = Null
                   /\ UNCHANGED <<repos, workspaces, sessions,
                                  selectedRepoPath>>]_vars

\* With a repo and one of its workspaces selected, selectWorkspace has just
\* refused a stored workspace of another repo.
C26_Witness ==
  /\ lastOp.op = "selectWorkspace"
  /\ selectedRepoPath # Null
  /\ selectedWorkspaceId # Null
  /\ Has(workspaces, selectedWorkspaceId)
  /\ workspaces[selectedWorkspaceId].repoPath = selectedRepoPath
  /\ \E id \in lastOp.keys :
       /\ Has(workspaces, id)
       /\ workspaces[id].repoPath # selectedRepoPath

\* C33: the selected repo is null or stored, the selected workspace is null
\* or stored, and a selected workspace belongs to the selected repo when both
\* are set.
C33_SelectionValid ==
  /\ selectedRepoPath = Null \/ Has(repos, selectedRepoPath)
  /\ selectedWorkspaceId = Null \/ Has(workspaces, selectedWorkspaceId)
  /\ (/\ selectedRepoPath # Null
      /\ selectedWorkspaceId # Null
      /\ Has(workspaces, selectedWorkspaceId)) =>
       workspaces[selectedWorkspaceId].repoPath = selectedRepoPath

(***************************************************************************)
(* Connection and sendMessage properties (SpecConn).                       *)
(***************************************************************************)
\* The sendMessage calls whose request is still outstanding.
Outstanding == {i \in DOMAIN sends : sends[i].result = "pending"}

\* C24: the status is 'processing' whenever a sendMessage request is still
\* outstanding, and 'idle' once every sendMessage call has settled.
C24_ProcessingWhileOutstanding ==
  /\ Outstanding # {} => status = "processing"
  /\ (sends # << >> /\ Outstanding = {}) => status = "idle"

\* C25: a connect call made while the transport is connected creates no
\* transport and no message bus and changes nothing of the store; a connect
\* call whose transport fails to connect completes normally and leaves the
\* state 'error'; no connect call ever completes with a rejection.
C25_ConnectIdempotent ==
  [][/\ (connect /\ IsConnected(transport)) =>
          /\ UNCHANGED <<state, transport, messageBus, transports, status,
                         sends, storeVars>>
          /\ connects'[Len(connects')].result = "resolved"
     /\ \A c \in DOMAIN connects :
          ConnectSettles(c, FALSE) =>
            /\ state' = "error"
            /\ connects'[c].result = "resolved"
     /\ \A c \in DOMAIN connects' : connects'[c].result # "rejected"]_vars

\* One connect call has returned at once because the transport was connected,
\* and another has completed normally after its transport failed to connect.
C25_Witness ==
  /\ \E c \in DOMAIN connects : connects[c].created = 0
  /\ \E c \in DOMAIN connects :
       /\ connects[c].attempt = "rejected"
       /\ connects[c].result = "resolved"
  /\ state = "error"

(***************************************************************************)
(* Chat input store properties (SpecInput).                                *)
(***************************************************************************)
ThinkingCycle == <<Null, "low", "medium", "high">>

\* The level that follows level in the cycle, the last one wrapping around.
FollowsInCycle(level) ==
  LET i == CHOOSE k \in 1..4 : ThinkingCycle[k] = level
  IN ThinkingCycle[(i % 4) + 1]

\* C27: toggleThinking moves the level one place along
\* null -> low -> medium -> high -> null and changes no other field of the
\* input store, and the fourth toggle in a row ends on the level the run
\* began with.
C27_ThinkingCycle ==
  [][toggleThinking =>
       /\ inputState'.thinking = FollowsInCycle(inputState.thinking)
       /\ inputState' = [inputState EXCEPT !.thinking = inputState'.thinking]
       /\ toggleRun'.n = 4 => inputState'.thinking = toggleRun'.start]_vars

\* Four toggles in a row have run from 'medium', with other fields of the
\* input store away from their initial values.
C27_Witness ==
  /\ toggleRun = [start |-> "medium", n |-> 4]
  /\ inputState.thinking = "medium"
  /\ inputState.value # ""
  /\ inputState.planMode # "normal"

(***************************************************************************)
(* Channel string properties (SpecChannel).                                *)
(***************************************************************************)
\* The caller contract: no separator and no reserved prefix inside a name.
Contract(name) ==
  \A i \in DOMAIN name : name[i] \notin {".", "send:", "invoke:"}

Respecting(x) == Contract(x.namespace) /\ Contract(x.method)

\* C28: two channel strings built from names that keep the caller contract
\* are equal only when they were built from the same (namespace, method)
\* pair in the same form.
C28_ChannelIsolation ==
  \A i, j \in DOMAIN addressed :
    LET x == addressed[i]
        y == addressed[j]
    IN (Respecting(x) /\ Respecting(y) /\ x.channel = y.channel) =>
         (x.namespace = y.namespace /\ x.method = y.method /\ x.form = y.form)

\* Two distinct pairs that keep the contract and whose names spell the same
\* text when written without the separator have been addressed in one form.
C28_Witness ==
  \E i, j \in DOMAIN addressed :
    LET x == addressed[i]
        y == addressed[j]
    IN /\ Respecting(x) /\ Respecting(y)
       /\ x.form = y.form
       /\ x.namespace # y.namespace
       /\ Text(x.namespace) \o Text(x.method)
            = Text(y.namespace) \o Text(y.method)

(***************************************************************************)
(* Separation of the two Host-to-Client forms (SpecSend).                  *)
(***************************************************************************)
\* The message of call c has been delivered to the Client.
Delivered(c) == Sent(c) /\ \A m \in toClient : m.call # c

\* C29: every activation of a handle callback was started by the message of
\* an invoke on the method the callback was registered for, never by a send;
\* every call of a listen callback was made for a send on its method, never
\* for an invoke; and an invoke whose message started no handle callback has
\* no response written and is still pending.
C29_NoCrossTraffic ==
  /\ \A a \in DOMAIN acts :
       /\ acts[a].call \in DOMAIN calls
       /\ regs[acts[a].reg].kind = "handle"
       /\ regs[acts[a].reg].channel =
            invokeChannel(calls[acts[a].call].namespace,
                          calls[acts[a].call].method)
  /\ \A i \in DOMAIN deliveries :
       /\ deliveries[i].seq \in DOMAIN sentLog
       /\ sentLog[deliveries[i].seq].call = 0
       /\ regs[deliveries[i].reg].kind = "listen"
       /\ regs[deliveries[i].reg].channel = sentLog[deliveries[i].seq].channel
  /\ \A c \in DOMAIN calls :
       ActsOf(c) = {} =>
         /\ ~Settled(c)
         /\ \A m \in toHost : m.channel # calls[c].id

\* An invoke on math.add was delivered while the only active registration on
\* math.add was one made with listen: no callback ran and the call is pending.
C29_Witness ==
  \E c \in DOMAIN calls :
    /\ Delivered(c)
    /\ calls[c].namespace = "math" /\ calls[c].method = "add"
    /\ \E r \in DOMAIN regs :
         /\ regs[r].kind = "listen"
         /\ regs[r].active
         /\ regs[r].channel = sendChannel("math", "add")
    /\ \A r \in DOMAIN regs : regs[r].kind = "listen"
    /\ acts = << >>
    /\ deliveries = << >>
    /\ ~Settled(c)

(***************************************************************************)
(* Waiters and replies (Spec).                                             *)
(***************************************************************************)
\* The waiter of call c is registered on the channel named by its token.
WaitsOnToken(c) ==
  \E w \in waiters : w.call = c /\ w.channel = calls[c].id

\* C34: a call whose message has been written is settled or has its waiter
\* registered on its token channel, so every envelope in flight for the token
\* of a call that has not settled finds that waiter.
C34_NoLostReply ==
  /\ \A c \in DOMAIN calls : Sent(c) => (Settled(c) \/ WaitsOnToken(c))
  /\ \A m \in toHost : \A c \in DOMAIN calls :
       (calls[c].id = m.channel /\ ~Settled(c)) => WaitsOnToken(c)

\* An envelope is in flight for a call that has not settled, and the waiter
\* of the call is registered.
C34_Witness ==
  \E m \in toHost : \E c \in DOMAIN calls :
    /\ calls[c].id = m.channel
    /\ ~Settled(c)
    /\ WaitsOnToken(c)

(***************************************************************************)
(* Interleaved handle callbacks (Spec).                                    *)
(***************************************************************************)
\* The envelope the callback of activation a owes to the call that started it.
Owed(a) ==
  Respond(Behaviour(regs[acts[a].reg].cb, calls[acts[a].call].args))

\* C30: a suspended handle callback does not hold back the inbound messages
\* that wait behind it, and every response in flight is on the channel named
\* by the token of the call whose message started its callback and carries
\* the result of that callback for that call's arguments, in whatever order
\* the callbacks complete.
C30_Interleaving ==
  /\ (\E a \in DOMAIN acts : acts[a].status = "pending") =>
       \A m \in toClient : ENABLED ClientReceive(m)
  /\ \A m \in toHost :
       /\ m.act \in DOMAIN acts
       /\ m.channel = calls[acts[m.act].call].id
       /\ m.payload = Owed(m.act)
       /\ \A c \in DOMAIN calls :
            c # acts[m.act].call => m.channel # calls[c].id

\* Two calls with different arguments started two callbacks; the one started
\* second has completed and its response is in flight while the one started
\* first is still suspended.
C30_Witness ==
  \E a1, a2 \in DOMAIN acts :
    /\ a1 < a2
    /\ acts[a1].call < acts[a2].call
    /\ calls[acts[a1].call].args # calls[acts[a2].call].args
    /\ acts[a1].status = "pending"
    /\ acts[a1].outcome.kind # "never"
    /\ acts[a2].status = "done"
    /\ RepliesInFlight(a2) # {}

(***************************************************************************)
(* Frame of a Pending Registration handle (SpecSend).                      *)
(***************************************************************************)
\* C31: calling the handle of registration r removes r alone: every other
\* registration, on the same channel or on another, is as it was and is still
\* called for every message in flight it would have been called for, no
\* callback runs and no reply is written, and no Host-side state changes.
C31_CleanupFrame ==
  [][\A r \in DOMAIN regs :
       Cleanup(r) =>
         /\ DOMAIN regs' = DOMAIN regs
         /\ ~regs'[r].active
         /\ \A q \in DOMAIN regs \ {r} : regs'[q] = regs[q]
         /\ \A m \in toClient :
              Elements(Called(m)) \ {r} \subseteq Elements(Called(m)')
         /\ UNCHANGED <<acts, toHost, deliveries, uncaught>>
         /\ UNCHANGED <<dispatchVars, hostVars, serverVars>>]_vars

\* Two callbacks were registered on one channel, the handle of the first was
\* called, and a message delivered after that reached the second alone.
C31_Witness ==
  \E r, q \in DOMAIN regs :
    /\ r < q
    /\ regs[r].channel = regs[q].channel
    /\ ~regs[r].active
    /\ regs[q].active
    /\ ActsOfReg(r) = {} /\ DeliveriesOfReg(r) = {}
    /\ ActsOfReg(q) \cup DeliveriesOfReg(q) # {}

(***************************************************************************)
(* Deregistration with a call in flight (SpecDetach)                       *)
(***************************************************************************)
\* C35: an activation that was suspended when the handle of its callback was
\* called is not cancelled.  It writes no envelope while it stays suspended
\* and exactly one once it has completed; that envelope goes to the token
\* channel of its call, where the call is settled already or its waiter is
\* still registered, and once the envelope has arrived the call is settled.
C35_DetachedStillAnswers ==
  \A a \in detached :
    LET c == acts[a].call
    IN /\ ~regs[acts[a].reg].active
       /\ acts[a].status = "pending" =>
            (acts[a].sent = 0 /\ RepliesInFlight(a) = {})
       /\ acts[a].status = "done" =>
            /\ acts[a].sent = 1
            /\ \A m \in RepliesInFlight(a) :
                 /\ m.channel = calls[c].id
                 /\ m.payload = Respond(acts[a].outcome)
                 /\ Settled(c) \/ WaitsOnToken(c)
            /\ Cardinality(RepliesInFlight(a)) <= 1
            /\ RepliesInFlight(a) = {} => Settled(c)

\* C35 witness: the handle was called while the activation was suspended,
\* the activation then completed, and its envelope settled the call.
C35_Witness ==
  \E a \in detached :
    /\ acts[a].status = "done"
    /\ Settled(acts[a].call)
    /\ calls[acts[a].call].settledBy = a

(***************************************************************************)
(* Waiter registry accounting (Spec)                                       *)
(***************************************************************************)
\* The tokens a once-listener is registered on.
WaiterTokens == {w.channel : w \in waiters}

\* Call c has run its ipcMain.once: every call but the one whose executor is
\* between randomUUID and ipcMain.once.
Registered(c) == c \in DOMAIN calls /\ (c < Len(calls) \/ hostPc # "once")

\* The tokens of the calls that registered a waiter and have not settled.
PendingTokens == {calls[c].id : c \in {k \in DOMAIN calls :
                                         Registered(k) /\ ~Settled(k)}}

\* C37: the tokens with a registered waiter are exactly the tokens of the
\* invoke calls that are issued and not yet settled, and every such call has
\* one waiter of its own: no waiter survives the settlement of its call and
\* none is removed while its call is pending.  Between two turns of the
\* dispatch loop every call is issued.
C37_WaiterAccounting ==
  /\ WaiterTokens = PendingTokens
  /\ \A w \in waiters :
       /\ w.call \in DOMAIN calls
       /\ w.channel = calls[w.call].id
       /\ ~Settled(w.call)
  /\ \A c \in DOMAIN calls :
       (Registered(c) /\ ~Settled(c)) =>
         Cardinality({w \in waiters : w.call = c}) = 1
  /\ hostPc = "idle" =>
       WaiterTokens = {calls[c].id : c \in {k \in DOMAIN calls : ~Settled(k)}}

\* C37 witness: of two issued calls the first has settled and has no waiter
\* left, the second is pending and its waiter is the only one registered.
C37_Witness ==
  /\ hostPc = "idle"
  /\ Len(calls) = 2
  /\ Settled(1)
  /\ ~Settled(2)
  /\ waiters = {[channel |-> calls[2].id, call |-> 2]}

(***************************************************************************)
(* Two Clients on one Host (SpecTwoClients)                                *)
(***************************************************************************)
\* C36: a call of the caller bound to Client A settles only on an envelope
\* that Client A sent on its token channel; an envelope Client B sends on
\* that channel settles nothing.
C36_SettledByOwnClient ==
  [][\A c \in DOMAIN calls :
       (~Settled(c) /\ calls'[c].promise # "pending") =>
         \E m \in toHost \ toHost' :
           m.channel = calls[c].id /\ m.sender = ClientA]_vars

(***************************************************************************)
(* Connection state consistency (SpecDisconnect)                           *)
(***************************************************************************)
\* A disconnect call has completed and no connect call was made since.
DisconnectedSince ==
  \E d \in DOMAIN disconnects :
    disconnects[d].result = "resolved" /\ disconnects[d].after = Len(connects)

\* C38: whenever the state is 'connected' the store holds a transport and a
\* message bus, and from the completion of a disconnect call to the next
\* connect call the state is 'disconnected' and both are null.
C38_ConnectionConsistent ==
  /\ state = "connected" => (transport # 0 /\ messageBus # 0)
  /\ DisconnectedSince =>
       (state = "disconnected" /\ transport = 0 /\ messageBus = 0)

=============================================================================
